---------------------------- MODULE Spec2Model ----------------------------
(***************************************************************************)
(* Payment Gateway Guard (server/payments/robust-mpesa.ts): retry with     *)
(* backoff, circuit breaker, metrics and sliding-window rate limiter       *)
(* around the M-Pesa provider calls.                                        *)
(*                                                                         *)
(* Each caller is one logical task of the event loop.  A task runs         *)
(* atomically between its suspension points, which are the awaited         *)
(* provider call (pc = "attempt") and the awaited retry delay              *)
(* (pc = "delay").  Time is Date.now() in milliseconds and only moves in   *)
(* the Tick action.                                                        *)
(***************************************************************************)
EXTENDS Integers, Sequences, FiniteSets, TLC

\* ---------------------------------------------------------------- constants
DEFAULT_TIMEOUT == 30000
MAX_RETRIES == 3
AUTH_MAX_RETRIES == 2
BASE_DELAY == 1000
CIRCUIT_BREAKER_THRESHOLD == 5
CIRCUIT_BREAKER_TIMEOUT == 60000
RATE_LIMIT_WINDOW == 60000
RATE_LIMIT_MAX_REQUESTS == 100

\* ------------------------------------------------------------------- bounds
\* the clock advances TickMs milliseconds per Tick, at most MaxTicks times
TickMs == 30000
MaxTicks == 4
\* guarded calls that may be admitted to the provider in one behaviour
MaxCalls == 7

\* calls of the rate-limited entry point in one behaviour of the health
\* check's specification
MaxHealthWindow == 2

\* timestamps in the rate limiter's window in one behaviour of the probes'
\* specification
MaxProbeWindow == 7

\* guarded calls that may be admitted to the provider in one behaviour of the
\* rate limiter's specification
MaxRateCalls == 1
\* ... and the number of Ticks in it
MaxRateTicks == 2

\* Math.random() takes the values k / JitterSteps, k = 0 .. JitterSteps - 1
JitterSteps == 4
\* attempts for which a retry delay is computed
MaxDelayAttempt == 4

\* outcomes recorded by updateMetrics in one behaviour of its specification
MaxSamples == 8

\* the AI usage monitor's clock advances in steps of this many hours, this
\* many times in one behaviour
UsageTickHours == 12
MaxUsageTicks == 3
\* usage records kept in one behaviour
MaxUsageRecords == 3
\* the daily call limits the monitor is configured with
MaxDailyLimit == 2

\* longest value given to a sensitive setting, and to one that is not
MaxValueLen == 6
MaxPlainLen == 1

\* ids that the test application generates in one behaviour
MaxIds == 2
MaxPasswordLen == 9
MaxCodeLen == 2

\* src/server/ai/usage-monitor.ts, with durations in hours
DEFAULT_DAILY_LIMIT == 100
DEFAULT_MONTHLY_LIMIT == 2000
DayHours == 24
MonthHours == 30 * 24
RetentionHours == 90 * 24

\* two logical tasks call the guard concurrently
Callers == {1, 2}
\* ... and two call methods wrapped by trackAIUsage
UsageTasks == {1, 2}

\* ------------------------------------------------------------------- inputs
\* A request as initiateSTKPush sees it: a field that is absent (undefined)
\* or the empty string is "falsy"; amount 0 is falsy too.
AllRequests ==
  [phone : {"", "254700000001"},
   hasAmount : BOOLEAN,
   amount : {-1, 0, 100},
   accountReference : {"", "INV-1"}]
Requests == {r \in AllRequests : ~r.hasAmount => r.amount = 0}
\* getAccessToken takes no request
NoRequest == [phone |-> "", hasAmount |-> FALSE, amount |-> 0, accountReference |-> ""]

\* What the underlying provider call can throw: the error's class and its
\* `status` property (0: the error carries no status).
ProviderErrors ==
  {[cls |-> "Error", status |-> 0],                \* network failure
   [cls |-> "Error", status |-> 500],              \* server error
   [cls |-> "Error", status |-> 400],              \* client error
   [cls |-> "ValidationError", status |-> 400],
   [cls |-> "ValidationError", status |-> 0],
   [cls |-> "ExternalServiceError", status |-> 0]}
NoError == [cls |-> "none", status |-> 0]

\* What the underlying provider call can return.
Values == {"v1", "v2"}
NoValue == "none"

\* ------------------------------------------------------------ secure settings
\* src/server/secure-settings.ts. A string is the sequence of its characters.
Chars == {"*", "a"}
Strings(n) == UNION {[1 .. k -> Chars] : k \in 0 .. n}
\* ... as a caller may type them: with a space before or after
Padded(values) ==
  values \cup {<<" ">> \o v : v \in values} \cup {v \o <<" ">> : v \in values}
Typed(n) == Padded(Strings(n))

\* SETTINGS_CONFIG, for two settings without a validator, one sensitive and
\* one not, and two settings with a validator: value.length >= 8 and
\* /^\d+$/.test(value). Every setting of the table is editable.
SETTINGS_CONFIG ==
  << [name |-> "CRON_SECRET", sensitive |-> TRUE, editable |-> TRUE, validator |-> "none"],
     [name |-> "SMTP_HOST", sensitive |-> FALSE, editable |-> TRUE, validator |-> "none"],
     [name |-> "AI_ADMIN_PASSWORD", sensitive |-> TRUE, editable |-> TRUE,
      validator |-> "length"],
     [name |-> "MPESA_SHORTCODE", sensitive |-> FALSE, editable |-> TRUE,
      validator |-> "digits"] >>
SettingNames == {SETTINGS_CONFIG[i].name : i \in 1 .. Len(SETTINGS_CONFIG)}
\* a name that SETTINGS_CONFIG does not hold
UnknownSetting == "UNKNOWN"
ConfigOf(name) ==
  CHOOSE c \in {SETTINGS_CONFIG[i] : i \in 1 .. Len(SETTINGS_CONFIG)} : c.name = name
\* the settings whose configuration has a validator, and the others
Validated == {name \in SettingNames : ConfigOf(name).validator # "none"}
Unvalidated == SettingNames \ Validated
NoSettingsResult == [kind |-> "none"]

\* the shortest password the validator of AI_ADMIN_PASSWORD accepts
MinPasswordLength == 8
Digits == {"1", "2"}
\* passwords of one repeated character, of every length up to MaxPasswordLen,
\* and blank ones
Passwords ==
  {[i \in 1 .. k |-> "a"] : k \in 0 .. MaxPasswordLen}
    \cup {[i \in 1 .. k |-> " "] : k \in 1 .. MaxPasswordLen}
\* short codes: digit strings up to MaxCodeLen, and one that is not a number
ShortCodes == UNION {[1 .. k -> Digits] : k \in 0 .. MaxCodeLen} \cup {<<"a">>}

\* no request has been answered yet
NoResponse == [method |-> "none", status |-> 0]

\* analyzeRoutes has not returned yet
NoAnalysis ==
  [returned |-> FALSE, totalRoutes |-> 0, totalConflicts |-> 0, hasCriticalIssues |-> FALSE]

VARIABLES
  now,               \* Date.now()
  configured,        \* isMpesaConfigured()
  circuitBreaker,    \* [failures, lastFailureTime, state]
  metrics,           \* [totalRequests, successfulRequests, failedRequests]
  requestTimestamps, \* the rate limiter's window
  pc,                \* per caller: "idle", "attempt", "delay", "done"
  op,                \* per caller: "none", "token", "stk"
  attempt,           \* per caller: retryWithBackoff's loop variable
  request,           \* per caller: the argument of the guarded call
  result,            \* per caller: what the finished call returned or threw
  calls,             \* per caller: provider calls made by the current guarded call
  delays,            \* per caller: retry delays waited by the current guarded call
  silent,            \* per caller: the provider will never answer the pending attempt
  settled,           \* per caller (history): how the provider call of the final attempt ended
  clientFailed,      \* per caller (history): an attempt of this call failed with status 400..499
  validationFailed,  \* per caller (history): an attempt of this call failed with a ValidationError
  consecFails        \* (history) guarded calls that failed in a row since a success or reset

\* the state of the payment guard (robust-mpesa.ts)
guardVars ==
  <<now, configured, circuitBreaker, metrics, requestTimestamps, pc, op,
    attempt, request, result, calls, delays, silent, settled, clientFailed,
    validationFailed, consecFails>>

VARIABLES
  health             \* the object getMpesaHealth returned, while its caller holds it
healthVars == <<health>>

VARIABLES
  retryDelay         \* the last call of calculateDelay: its arguments and its result
delayVars == <<retryDelay>>

\* The response time of a guarded call, Date.now() - startTime, is read by
\* nothing but the average; the average is followed where updateMetrics is
\* told the response times (SpecAverage), not in the guarded operations.
VARIABLES
  averageResponseTime, \* metrics.averageResponseTime, a double [m, e]
  responseTimes        \* (history) the response times passed to updateMetrics
averageVars == <<averageResponseTime, responseTimes>>

VARIABLES
  usageNow,          \* Date.now() of the AI usage monitor, in hours
  usageRecords,      \* AIUsageMonitor.usageRecords: [timestamp, success]
  limits,            \* AIUsageMonitor.limits: [dailyCalls, monthlyCalls]
  isEnabled,         \* AIUsageMonitor.isEnabled
  usagePc,           \* per task: "idle", "method" (awaiting the wrapped method)
  usageResult,       \* per task: how its last wrapped call ended
  invocations        \* (history) the times at which the wrapped method was invoked
usageVars ==
  <<usageNow, usageRecords, limits, isEnabled, usagePc, usageResult, invocations>>

VARIABLES
  env,               \* process.env, for the settings of SETTINGS_CONFIG
  settingsResult     \* what the last getSetting / getAllSettings returned
settingsVars == <<env, settingsResult>>

VARIABLES
  routes,            \* AdminRouteValidator.routes
  conflicts,         \* AdminRouteValidator.conflicts
  analysis           \* what the last analyzeRoutes returned: its summary
routeVars == <<routes, conflicts, analysis>>

VARIABLES
  shops,             \* the test application's shops map: key -> shop
  idCounter,         \* ... and its idCounter
  response,          \* the response to the last request
  issued,            \* (history) the ids returned by successful POSTs, in order
  live               \* (history) the ids returned by a POST and not deleted since
shopVars == <<shops, idCounter, response, issued, live>>

\* everything but the state of the payment guard
otherVars ==
  <<healthVars, delayVars, averageVars, usageVars, settingsVars, routeVars, shopVars>>

vars == <<guardVars, otherVars>>

\* what the operations of one module leave alone outside the payment guard
exceptHealth == <<delayVars, averageVars, usageVars, settingsVars, routeVars, shopVars>>
exceptDelay == <<healthVars, averageVars, usageVars, settingsVars, routeVars, shopVars>>
exceptAverage == <<healthVars, delayVars, usageVars, settingsVars, routeVars, shopVars>>
exceptUsage == <<healthVars, delayVars, averageVars, settingsVars, routeVars, shopVars>>
exceptSettings == <<healthVars, delayVars, averageVars, usageVars, routeVars, shopVars>>
exceptRoutes == <<healthVars, delayVars, averageVars, usageVars, settingsVars, shopVars>>
exceptShops == <<healthVars, delayVars, averageVars, usageVars, settingsVars, routeVars>>


\* ------------------------------------------------------------ configuration
defaultRetryConfig ==
  [maxRetries |-> MAX_RETRIES, baseDelay |-> BASE_DELAY,
   maxDelay |-> 30000, backoffMultiplier |-> 2]

\* { ...defaultRetryConfig, maxRetries: 2 }: fewer retries for auth
authRetryConfig == [defaultRetryConfig EXCEPT !.maxRetries = AUTH_MAX_RETRIES]

\* the finalConfig retryWithBackoff runs with, per guarded operation
finalConfig(o) == IF o = "token" THEN authRetryConfig ELSE defaultRetryConfig

\* ------------------------------------------------------------ pure helpers
\* error.status && error.status >= 400 && error.status < 500
IsClientError(error) ==
  error.status # 0 /\ error.status >= 400 /\ error.status < 500

\* faulty variant: the status of the error is not looked at
shouldRetry_IgnoresStatus(error, att, config) ==
  IF att >= config.maxRetries THEN FALSE ELSE TRUE

\* faulty variant: the last attempt is given up one attempt early
shouldRetry_OffByOne(error, att, config) ==
  IF att >= config.maxRetries - 1 THEN FALSE
  ELSE IF IsClientError(error) THEN FALSE
  ELSE TRUE

shouldRetry(error, att, config) ==
  IF att >= config.maxRetries THEN FALSE
  ELSE IF IsClientError(error) THEN FALSE
  ELSE TRUE

\* The catch block of retryWithBackoff's loop for the failed attempt att:
\* "throw" (not retryable: throw error), "delay" (wait, then the next attempt),
\* "exhausted" (no delay, the loop ends and lastError is thrown).
retryDecision(error, att, config) ==
  IF ~shouldRetry(error, att, config) THEN "throw"
  ELSE IF att < config.maxRetries THEN "delay"
  ELSE "exhausted"

\* faulty variant: the breaker opens only above the threshold
updateCircuitBreaker_AboveThreshold(cb, success, t) ==
  IF success
  THEN [cb EXCEPT !.failures = 0, !.state = "CLOSED"]
  ELSE [failures |-> cb.failures + 1,
        lastFailureTime |-> t,
        state |-> IF cb.failures + 1 > CIRCUIT_BREAKER_THRESHOLD
                  THEN "OPEN" ELSE cb.state]

\* faulty variant: a success clears the failures but leaves the state
updateCircuitBreaker_SuccessKeepsState(cb, success, t) ==
  IF success
  THEN [cb EXCEPT !.failures = 0]
  ELSE [failures |-> cb.failures + 1,
        lastFailureTime |-> t,
        state |-> IF cb.failures + 1 >= CIRCUIT_BREAKER_THRESHOLD
                  THEN "OPEN" ELSE cb.state]

updateCircuitBreaker(cb, success, t) ==
  IF success
  THEN [cb EXCEPT !.failures = 0, !.state = "CLOSED"]
  ELSE [failures |-> cb.failures + 1,
        lastFailureTime |-> t,
        state |-> IF cb.failures + 1 >= CIRCUIT_BREAKER_THRESHOLD
                  THEN "OPEN" ELSE cb.state]

\* faulty variant: the cooldown must be exceeded, not reached
isCircuitBreakerOpen_StrictTimeout(cb, t) ==
  IF cb.state = "CLOSED" THEN [open |-> FALSE, cb |-> cb]
  ELSE IF cb.state = "OPEN"
  THEN IF t - cb.lastFailureTime > CIRCUIT_BREAKER_TIMEOUT
       THEN [open |-> FALSE, cb |-> [cb EXCEPT !.state = "HALF_OPEN"]]
       ELSE [open |-> TRUE, cb |-> cb]
  ELSE [open |-> FALSE, cb |-> cb]

\* faulty variant: an Open breaker lets the next check through at once
isCircuitBreakerOpen_IgnoresCooldown(cb, t) ==
  IF cb.state = "OPEN"
  THEN [open |-> FALSE, cb |-> [cb EXCEPT !.state = "HALF_OPEN"]]
  ELSE [open |-> FALSE, cb |-> cb]

\* faulty variant: a check that finds the breaker Open restarts the cooldown
isCircuitBreakerOpen_RestartsCooldown(cb, t) ==
  IF cb.state = "CLOSED" THEN [open |-> FALSE, cb |-> cb]
  ELSE IF cb.state = "OPEN"
  THEN IF t - cb.lastFailureTime >= CIRCUIT_BREAKER_TIMEOUT
       THEN [open |-> FALSE, cb |-> [cb EXCEPT !.state = "HALF_OPEN"]]
       ELSE [open |-> TRUE, cb |-> [cb EXCEPT !.lastFailureTime = t]]
  ELSE [open |-> FALSE, cb |-> cb]

\* faulty variant: a HalfOpen breaker answers 'open'
isCircuitBreakerOpen_HalfOpenRejects(cb, t) ==
  IF cb.state = "CLOSED" THEN [open |-> FALSE, cb |-> cb]
  ELSE IF cb.state = "OPEN"
  THEN IF t - cb.lastFailureTime >= CIRCUIT_BREAKER_TIMEOUT
       THEN [open |-> FALSE, cb |-> [cb EXCEPT !.state = "HALF_OPEN"]]
       ELSE [open |-> TRUE, cb |-> cb]
  ELSE [open |-> TRUE, cb |-> cb]

\* A query with a side effect: the answer and the breaker it leaves behind.
isCircuitBreakerOpen(cb, t) ==
  IF cb.state = "CLOSED" THEN [open |-> FALSE, cb |-> cb]
  ELSE IF cb.state = "OPEN"
  THEN IF t - cb.lastFailureTime >= CIRCUIT_BREAKER_TIMEOUT
       THEN [open |-> FALSE, cb |-> [cb EXCEPT !.state = "HALF_OPEN"]]
       ELSE [open |-> TRUE, cb |-> cb]
  ELSE [open |-> FALSE, cb |-> cb]

\* faulty variant: a failure is not counted in totalRequests
updateMetrics_FailureNotInTotal(m, success) ==
  [totalRequests |-> m.totalRequests + (IF success THEN 1 ELSE 0),
   successfulRequests |-> m.successfulRequests + (IF success THEN 1 ELSE 0),
   failedRequests |-> m.failedRequests + (IF success THEN 0 ELSE 1)]

\* the three counters of updateMetrics
updateMetrics(m, success) ==
  [totalRequests |-> m.totalRequests + 1,
   successfulRequests |-> m.successfulRequests + (IF success THEN 1 ELSE 0),
   failedRequests |-> m.failedRequests + (IF success THEN 0 ELSE 1)]

\* requestTimestamps.filter(timestamp => now - timestamp < RATE_LIMIT_WINDOW)
recentRequests(ts, t) ==
  LET recent(timestamp) == t - timestamp < RATE_LIMIT_WINDOW
  IN  SelectSeq(ts, recent)

\* faulty variant: the window is full only above the maximum
checkRateLimit_AboveMax(ts, t) ==
  LET recent == recentRequests(ts, t) IN
  IF Len(recent) > RATE_LIMIT_MAX_REQUESTS
  THEN [ok |-> FALSE, ts |-> ts]
  ELSE [ok |-> TRUE, ts |-> Append(recent, t)]

\* faulty variant: the old timestamps are not cleaned
checkRateLimit_KeepsOld(ts, t) ==
  LET recent == recentRequests(ts, t) IN
  IF Len(recent) >= RATE_LIMIT_MAX_REQUESTS
  THEN [ok |-> FALSE, ts |-> ts]
  ELSE [ok |-> TRUE, ts |-> Append(ts, t)]

\* checkRateLimit: throws (ok = FALSE, window untouched) or stores the recent
\* entries followed by now
checkRateLimit(ts, t) ==
  LET recent == recentRequests(ts, t) IN
  IF Len(recent) >= RATE_LIMIT_MAX_REQUESTS
  THEN [ok |-> FALSE, ts |-> ts]
  ELSE [ok |-> TRUE, ts |-> Append(recent, t)]

\* --------------------------------------------------------------- retry delay
\* Delays are kept exact: a delay of d milliseconds is the integer
\* d * DelayScale, so that a jitter of k / JitterSteps of a tenth of a delay
\* is an integer too.
DelayScale == 10 * JitterSteps

\* the retry policies calculateDelay is applied to: durations are not negative
RetryConfigs ==
  [maxRetries : {MAX_RETRIES}, baseDelay : {0, 1, BASE_DELAY},
   maxDelay : {0, 1050, 30000}, backoffMultiplier : {0, 1, 2, 3}]

\* Math.min(a, b)
Min(a, b) == IF a <= b THEN a ELSE b

\* Math.pow(x, n) for a natural n; Math.pow(0, 0) = 1
Pow(x, n) == IF n = 0 THEN 1 ELSE x ^ n

\* faulty variant: the jitter is added after the cap
calculateDelay_JitterAfterCap(att, config, k) ==
  LET delay == config.baseDelay * Pow(config.backoffMultiplier, att - 1)
      jitter == k * delay
  IN  Min(delay * DelayScale, config.maxDelay * DelayScale) + jitter

\* calculateDelay(attempt, config) when Math.random() returns k / JitterSteps,
\* in units of 1 / DelayScale ms
calculateDelay(att, config, k) ==
  LET delay == config.baseDelay * Pow(config.backoffMultiplier, att - 1)
      jitter == k * delay
  IN  Min(delay * DelayScale + jitter, config.maxDelay * DelayScale)

\* calculateDelay has not been called
NoDelay == [attempt |-> 0, config |-> defaultRetryConfig, delay |-> 0]

\* ------------------------------------------------------ average response time
\* metrics.averageResponseTime is a JavaScript number: an IEEE 754 double.
\* The doubles met here are finite, not negative and far from the ends of the
\* exponent range, so a double is zero or m * 2^e with m a natural number of
\* exactly MantissaBits bits; every operation returns the double nearest to
\* the exact result, ties to even.
\*
\* Natural numbers are sequences of limbs of LimbBits bits, least significant
\* first, with no zero limb at the high end.
MantissaBits == 53
LimbBits == 15
Limb == 2 ^ LimbBits

\* the limbs of a natural number
RECURSIVE Limbs(_)
Limbs(n) == IF n = 0 THEN <<>> ELSE <<n % Limb>> \o Limbs(n \div Limb)

RECURSIVE Trim(_)
Trim(m) ==
  IF m = <<>> THEN m
  ELSE IF m[Len(m)] = 0 THEN Trim(SubSeq(m, 1, Len(m) - 1))
  ELSE m

\* limb i of m, 0 beyond its ends
At(m, i) == IF i >= 1 /\ i <= Len(m) THEN m[i] ELSE 0

\* the number of bits of a limb, and of a natural number
BitLength(x) == CHOOSE n \in 0..LimbBits : x < 2 ^ n /\ (n = 0 \/ x >= 2 ^ (n - 1))
Bits(m) == IF m = <<>> THEN 0 ELSE LimbBits * (Len(m) - 1) + BitLength(m[Len(m)])

\* m * 2^k
ShiftLeft(m, k) ==
  LET ls == k \div LimbBits
      bs == k % LimbBits
  IN  Trim([i \in 1..(Len(m) + ls + 1) |->
              (At(m, i - ls) % 2 ^ (LimbBits - bs)) * 2 ^ bs
                + At(m, i - ls - 1) \div 2 ^ (LimbBits - bs)])

\* m \div 2^k
ShiftRight(m, k) ==
  LET ls == k \div LimbBits
      bs == k % LimbBits
  IN  Trim([i \in 1..Len(m) |->
              At(m, i + ls) \div 2 ^ bs
                + (At(m, i + ls + 1) % 2 ^ bs) * 2 ^ (LimbBits - bs)])

\* the k low bits of m are zero
LowBitsZero(m, k) ==
  /\ \A i \in 1..(k \div LimbBits) : At(m, i) = 0
  /\ At(m, k \div LimbBits + 1) % 2 ^ (k % LimbBits) = 0

\* a + b from limb i on, c a carry
RECURSIVE AddFrom(_, _, _, _)
AddFrom(a, b, i, c) ==
  IF i > Len(a) /\ i > Len(b) THEN (IF c = 0 THEN <<>> ELSE <<c>>)
  ELSE LET t == At(a, i) + At(b, i) + c
       IN  <<t % Limb>> \o AddFrom(a, b, i + 1, t \div Limb)

Add(a, b) == AddFrom(a, b, 1, 0)

\* a * c from limb i on for a natural c below Limb, carry a carry
RECURSIVE MulFrom(_, _, _, _)
MulFrom(a, c, i, carry) ==
  IF i > Len(a) THEN (IF carry = 0 THEN <<>> ELSE <<carry>>)
  ELSE LET t == a[i] * c + carry
       IN  <<t % Limb>> \o MulFrom(a, c, i + 1, t \div Limb)

MulSmall(a, c) == Trim(MulFrom(a, c, 1, 0))

\* long division of the limbs 1..i of a, below a remainder r, by a natural c
\* below Limb: the quotient and the remainder
RECURSIVE DivFrom(_, _, _, _)
DivFrom(a, c, i, r) ==
  IF i = 0 THEN [q |-> <<>>, r |-> r]
  ELSE LET t == r * Limb + a[i]
           low == DivFrom(a, c, i - 1, t % c)
       IN  [q |-> low.q \o <<t \div c>>, r |-> low.r]

\* the double m * 2^e, m of at most MantissaBits bits (or of one bit more and
\* even)
Double(m, e) ==
  LET k == MantissaBits - Bits(m) IN
  IF m = <<>> THEN [m |-> <<>>, e |-> 0]
  ELSE IF k >= 0 THEN [m |-> ShiftLeft(m, k), e |-> e - k]
  ELSE [m |-> ShiftRight(m, 0 - k), e |-> e - k]

\* the double nearest to m * 2^e (plus a nonzero rest below it, if sticky),
\* ties to even
RoundToDouble(m, e, sticky) ==
  LET k == Bits(m) - MantissaBits IN
  IF k <= 0 THEN Double(m, e)
  ELSE LET withGuard == ShiftRight(m, k - 1)
           kept == ShiftRight(withGuard, 1)
           rest == sticky \/ ~LowBitsZero(m, k - 1)
           up == withGuard[1] % 2 = 1 /\ (rest \/ kept[1] % 2 = 1)
       IN  Double(IF up THEN Add(kept, <<1>>) ELSE kept, e + k)

\* the double of a natural number below 2^MantissaBits
DoubleOf(n) == Double(Limbs(n), 0)

\* x * c, c a natural number below Limb
Times(x, c) == RoundToDouble(MulSmall(x.m, c), x.e, FALSE)

\* x + n, n a natural number
Plus(x, n) ==
  IF x.e < 0
  THEN RoundToDouble(Add(x.m, ShiftLeft(Limbs(n), 0 - x.e)), x.e, FALSE)
  ELSE RoundToDouble(Add(ShiftLeft(x.m, x.e), Limbs(n)), 0, FALSE)

\* x / c, c a natural number below Limb, c > 0: the quotient is taken with
\* four limbs more than x has
DividedBy(x, c) ==
  IF x.m = <<>> THEN x
  ELSE LET num == ShiftLeft(x.m, 4 * LimbBits)
           d == DivFrom(num, c, Len(num), 0)
       IN  RoundToDouble(Trim(d.q), x.e - 4 * LimbBits, d.r # 0)

\* response times: Date.now() - startTime, in ms
ResponseTimes == {0, 30000}

\* faulty variant: the previous average is weighted with the new count
averageAfter_WeightsNewCount(avg, n, responseTime) ==
  DividedBy(Plus(Times(avg, n), responseTime), n)

\* the average updateMetrics stores, n being the totalRequests it has just
\* incremented:
\*   totalResponseTime = averageResponseTime * (totalRequests - 1) + responseTime
\*   averageResponseTime = totalResponseTime / totalRequests
averageAfter(avg, n, responseTime) ==
  DividedBy(Plus(Times(avg, n - 1), responseTime), n)

\* --------------------------------------------------------------- snapshots
\* An object as its holder has it: its fields, and whether it is the guard's
\* own object (a write to it lands in the guard) or an object of its own.
\* faulty variant: the guard's object itself is handed out
spread_SameObject(obj) == [shared |-> TRUE, fields |-> obj]

\* { ...obj }: a new object with the fields of obj
spread(obj) == [shared |-> FALSE, fields |-> obj]

\* what getMpesaHealth returns for the breaker cb, the metrics m and
\* isMpesaConfigured() = conf; written: its holder has written to it (history)
getMpesaHealth(cb, m, conf) ==
  [healthy |-> cb.state = "CLOSED" /\ conf,
   circuitBreaker |-> spread(cb),
   metrics |-> spread(m),
   configured |-> conf,
   written |-> FALSE]

\* nobody holds a health object
NoHealth ==
  [healthy |-> FALSE,
   circuitBreaker |-> spread([failures |-> 0, lastFailureTime |-> 0, state |-> "none"]),
   metrics |-> spread([totalRequests |-> 0, successfulRequests |-> 0, failedRequests |-> 0]),
   configured |-> FALSE,
   written |-> FALSE]

\* ------------------------------------------------------------------ results
Ok(v) == [kind |-> "ok", msg |-> "", cause |-> NoError, value |-> v]
Err(kind, msg, cause) == [kind |-> kind, msg |-> msg, cause |-> cause, value |-> NoValue]
NoResult == [kind |-> "none", msg |-> "", cause |-> NoError, value |-> NoValue]
\* how a provider call ended: with a value or with an error
Settled(v, error) == [value |-> v, error |-> error]
NotSettled == Settled(NoValue, NoError)

NotConfiguredError == Err("Validation", "M-Pesa credentials not configured", NoError)
MissingFieldsError == Err("Validation", "Missing required fields", NoError)
AmountError == Err("Validation", "Amount must be greater than 0", NoError)
BreakerOpenError == Err("ExternalService", "Circuit breaker is open", NoError)
RateLimitError == Err("ExternalService", "Rate limit exceeded", NoError)

\* the error class as the caller sees it
KindOf(error) ==
  IF error.cls = "ValidationError" THEN "Validation"
  ELSE IF error.cls = "ExternalServiceError" THEN "ExternalService"
  ELSE "Other"

\* the catch block of getAccessToken: what is thrown for the caught error
tokenFailure(error) ==
  IF error.cls = "ExternalServiceError"
  THEN Err("ExternalService", "as thrown", error)
  ELSE Err("ExternalService", "Failed to get access token", error)

\* faulty variant: every caught error is wrapped
stkFailure_WrapsAll(error) ==
  Err("ExternalService", "Failed to initiate payment", error)

\* the catch block of initiateSTKPush: what is thrown for the caught error
stkFailure(error) ==
  IF error.cls = "ExternalServiceError" \/ error.cls = "ValidationError"
  THEN Err(KindOf(error), "as thrown", error)
  ELSE Err("ExternalService", "Failed to initiate payment", error)

\* faulty variant: the amount's sign is not checked
validateRequest_NoSignCheck(req) ==
  IF req.phone = "" \/ ~req.hasAmount \/ req.amount = 0
     \/ req.accountReference = ""
  THEN MissingFieldsError
  ELSE NoResult

\* the request validation of initiateSTKPush: NoResult when the request passes
validateRequest(req) ==
  IF req.phone = "" \/ ~req.hasAmount \/ req.amount = 0
     \/ req.accountReference = ""
  THEN MissingFieldsError
  ELSE IF req.amount <= 0 THEN AmountError
  ELSE NoResult

\* --------------------------------------------------------------------- Init
Init ==
  /\ now = 0
  /\ configured \in BOOLEAN
  /\ circuitBreaker = [failures |-> 0, lastFailureTime |-> 0, state |-> "CLOSED"]
  /\ metrics = [totalRequests |-> 0, successfulRequests |-> 0, failedRequests |-> 0]
  /\ requestTimestamps = <<>>
  /\ pc = [p \in Callers |-> "idle"]
  /\ op = [p \in Callers |-> "none"]
  /\ attempt = [p \in Callers |-> 0]
  /\ request = [p \in Callers |-> NoRequest]
  /\ result = [p \in Callers |-> NoResult]
  /\ calls = [p \in Callers |-> 0]
  /\ delays = [p \in Callers |-> 0]
  /\ silent = [p \in Callers |-> FALSE]
  /\ settled = [p \in Callers |-> NotSettled]
  /\ clientFailed = [p \in Callers |-> FALSE]
  /\ validationFailed = [p \in Callers |-> FALSE]
  /\ consecFails = 0
  /\ health = NoHealth
  /\ retryDelay = NoDelay
  /\ averageResponseTime = DoubleOf(0)
  /\ responseTimes = <<>>
  /\ usageNow = 0
  /\ usageRecords = <<>>
  /\ limits = [dailyCalls |-> DEFAULT_DAILY_LIMIT, monthlyCalls |-> DEFAULT_MONTHLY_LIMIT]
  /\ isEnabled = TRUE
  /\ usagePc = [t \in UsageTasks |-> "idle"]
  /\ usageResult = [t \in UsageTasks |-> "none"]
  /\ invocations = <<>>
  /\ env = [name \in SettingNames |-> <<>>]
  /\ settingsResult = NoSettingsResult
  /\ routes = <<>>
  /\ conflicts = <<>>
  /\ analysis = NoAnalysis
  /\ shops = <<>>
  /\ idCounter = 0
  /\ response = NoResponse
  /\ issued = <<>>
  /\ live = {}

\* ------------------------------------------------------------ building blocks
InFlight(p) == pc[p] = "attempt" \/ pc[p] = "delay"

\* A settled guarded call resumes the task awaiting it in the same microtask
\* checkpoint, before the event loop runs any timer or I/O callback: no other
\* event is taken while a caller holds an outcome it has not returned with.
NoneDone == \A q \in Callers : pc[q] # "done"

\* room for one more guarded call to reach the provider
Budget ==
  metrics.totalRequests + Cardinality({q \in Callers : InFlight(q)}) < MaxCalls

\* the guarded call of p ends by throwing r before any provider call
ThrowEarly(p, o, req, r) ==
  /\ pc' = [pc EXCEPT ![p] = "done"]
  /\ op' = [op EXCEPT ![p] = o]
  /\ request' = [request EXCEPT ![p] = req]
  /\ result' = [result EXCEPT ![p] = r]
  /\ UNCHANGED <<attempt, calls, delays, silent, settled, clientFailed, validationFailed>>

\* retryWithBackoff starts: attempt 1 calls the provider
BeginRetry(p, o, req) ==
  /\ Budget
  /\ pc' = [pc EXCEPT ![p] = "attempt"]
  /\ op' = [op EXCEPT ![p] = o]
  /\ request' = [request EXCEPT ![p] = req]
  /\ attempt' = [attempt EXCEPT ![p] = 1]
  /\ calls' = [calls EXCEPT ![p] = 1]
  /\ UNCHANGED <<result, delays, silent, settled, clientFailed, validationFailed>>

\* the body of a guarded operation from its breaker check on
CheckBreakerAndRun(p, o, req) ==
  LET chk == isCircuitBreakerOpen(circuitBreaker, now) IN
  /\ circuitBreaker' = chk.cb
  /\ UNCHANGED <<metrics, consecFails>>
  /\ IF chk.open THEN ThrowEarly(p, o, req, BreakerOpenError) ELSE BeginRetry(p, o, req)

\* initiateSTKPush(request) up to its first suspension point
RunSTKPush(p, req) ==
  IF ~configured
  THEN ThrowEarly(p, "stk", req, NotConfiguredError)
       /\ UNCHANGED <<circuitBreaker, metrics, consecFails>>
  ELSE IF validateRequest(req) # NoResult
  THEN ThrowEarly(p, "stk", req, validateRequest(req))
       /\ UNCHANGED <<circuitBreaker, metrics, consecFails>>
  ELSE CheckBreakerAndRun(p, "stk", req)

\* ------------------------------------------------------------------ actions
\* Date.now() moves on by TickMs, at most maxTicks times
AdvanceClock(maxTicks) ==
  /\ NoneDone
  /\ now + TickMs <= maxTicks * TickMs
  /\ now' = now + TickMs
  /\ UNCHANGED <<configured, circuitBreaker, metrics, requestTimestamps, pc, op,
                 attempt, request, result, calls, delays, silent, settled,
                 clientFailed, validationFailed, consecFails>>
  /\ UNCHANGED otherVars

Tick == AdvanceClock(MaxTicks)

GetAccessToken(p) ==
  /\ NoneDone
  /\ pc[p] = "idle"
  /\ IF ~configured
     THEN ThrowEarly(p, "token", NoRequest, NotConfiguredError)
          /\ UNCHANGED <<circuitBreaker, metrics, consecFails>>
     ELSE CheckBreakerAndRun(p, "token", NoRequest)
  /\ UNCHANGED <<now, configured, requestTimestamps>>
  /\ UNCHANGED otherVars

InitiateSTKPush(p, req) ==
  /\ NoneDone
  /\ pc[p] = "idle"
  /\ RunSTKPush(p, req)
  /\ UNCHANGED <<now, configured, requestTimestamps>>
  /\ UNCHANGED otherVars

InitiateSTKPushWithRateLimit(p, req) ==
  /\ NoneDone
  /\ pc[p] = "idle"
  /\ LET lim == checkRateLimit(requestTimestamps, now) IN
     /\ requestTimestamps' = lim.ts
     /\ IF lim.ok
        THEN RunSTKPush(p, req)
        ELSE ThrowEarly(p, "stk", req, RateLimitError)
             /\ UNCHANGED <<circuitBreaker, metrics, consecFails>>
  /\ UNCHANGED <<now, configured>>
  /\ UNCHANGED otherVars

\* the pending provider call resolves with v: retryWithBackoff returns it and the
\* try block of the guarded operation records the success
AttemptSucceeds(p, v) ==
  /\ NoneDone
  /\ pc[p] = "attempt"
  /\ ~silent[p]
  /\ metrics' = updateMetrics(metrics, TRUE)
  /\ circuitBreaker' = updateCircuitBreaker(circuitBreaker, TRUE, now)
  /\ consecFails' = 0
  /\ pc' = [pc EXCEPT ![p] = "done"]
  /\ result' = [result EXCEPT ![p] = Ok(v)]
  /\ settled' = [settled EXCEPT ![p] = Settled(v, NoError)]
  /\ UNCHANGED <<now, configured, requestTimestamps, op, attempt, request, calls,
                 delays, silent, clientFailed, validationFailed>>
  /\ UNCHANGED otherVars

\* (faulty variant) every failed attempt is recorded in the breaker
AttemptFailsRetry_RecordsAttempt(p, error) ==
  /\ NoneDone
  /\ pc[p] = "attempt"
  /\ ~silent[p]
  /\ retryDecision(error, attempt[p], finalConfig(op[p])) = "delay"
  /\ circuitBreaker' = updateCircuitBreaker(circuitBreaker, FALSE, now)
  /\ pc' = [pc EXCEPT ![p] = "delay"]
  /\ delays' = [delays EXCEPT ![p] = @ + 1]
  /\ clientFailed' = [clientFailed EXCEPT ![p] = @ \/ error.status \in 400..499]
  /\ validationFailed' = [validationFailed EXCEPT ![p] = @ \/ error.cls = "ValidationError"]
  /\ UNCHANGED <<now, configured, metrics, requestTimestamps, op,
                 attempt, request, result, calls, silent, settled, consecFails>>
  /\ UNCHANGED otherVars

\* the pending provider call rejects with error and the loop goes on: it waits
\* for the retry delay
AttemptFailsRetry(p, error) ==
  /\ NoneDone
  /\ pc[p] = "attempt"
  /\ ~silent[p]
  /\ retryDecision(error, attempt[p], finalConfig(op[p])) = "delay"
  /\ pc' = [pc EXCEPT ![p] = "delay"]
  /\ delays' = [delays EXCEPT ![p] = @ + 1]
  /\ clientFailed' = [clientFailed EXCEPT ![p] = @ \/ error.status \in 400..499]
  /\ validationFailed' = [validationFailed EXCEPT ![p] = @ \/ error.cls = "ValidationError"]
  /\ UNCHANGED <<now, configured, circuitBreaker, metrics, requestTimestamps, op,
                 attempt, request, result, calls, silent, settled, consecFails>>
  /\ UNCHANGED otherVars

\* the pending provider call rejects with error and retryWithBackoff throws it
\* (not retryable, or no attempt left): the catch block of the guarded
\* operation records the failure and throws
AttemptFailsFinal(p, error) ==
  /\ NoneDone
  /\ pc[p] = "attempt"
  /\ ~silent[p]
  /\ retryDecision(error, attempt[p], finalConfig(op[p])) # "delay"
  /\ metrics' = updateMetrics(metrics, FALSE)
  /\ circuitBreaker' = updateCircuitBreaker(circuitBreaker, FALSE, now)
  /\ consecFails' = consecFails + 1
  /\ pc' = [pc EXCEPT ![p] = "done"]
  /\ result' = [result EXCEPT ![p] =
                  IF op[p] = "token" THEN tokenFailure(error) ELSE stkFailure(error)]
  /\ settled' = [settled EXCEPT ![p] = Settled(NoValue, error)]
  /\ clientFailed' = [clientFailed EXCEPT ![p] = @ \/ error.status \in 400..499]
  /\ validationFailed' = [validationFailed EXCEPT ![p] = @ \/ error.cls = "ValidationError"]
  /\ UNCHANGED <<now, configured, requestTimestamps, op, attempt, request, calls,
                 delays, silent>>
  /\ UNCHANGED otherVars

\* faulty variant: the loop consults the breaker again before each further
\* attempt and gives up when it is open
DelayElapses_ChecksBreaker(p) ==
  /\ NoneDone
  /\ pc[p] = "delay"
  /\ IF isCircuitBreakerOpen(circuitBreaker, now).open
     THEN /\ pc' = [pc EXCEPT ![p] = "done"]
          /\ result' = [result EXCEPT ![p] = BreakerOpenError]
          /\ UNCHANGED <<attempt, calls>>
     ELSE /\ pc' = [pc EXCEPT ![p] = "attempt"]
          /\ attempt' = [attempt EXCEPT ![p] = @ + 1]
          /\ calls' = [calls EXCEPT ![p] = @ + 1]
          /\ UNCHANGED result
  /\ UNCHANGED <<now, configured, circuitBreaker, metrics, requestTimestamps, op,
                 request, delays, silent, settled, clientFailed, validationFailed, consecFails>>
  /\ UNCHANGED otherVars

\* the retry delay's timer fires: the loop makes the next attempt
DelayElapses(p) ==
  /\ NoneDone
  /\ pc[p] = "delay"
  /\ pc' = [pc EXCEPT ![p] = "attempt"]
  /\ attempt' = [attempt EXCEPT ![p] = @ + 1]
  /\ calls' = [calls EXCEPT ![p] = @ + 1]
  /\ UNCHANGED <<now, configured, circuitBreaker, metrics, requestTimestamps, op,
                 request, result, delays, silent, settled, clientFailed, validationFailed, consecFails>>
  /\ UNCHANGED otherVars

\* the task that awaited the guarded call takes its outcome and ends
Return(p) ==
  /\ pc[p] = "done"
  /\ pc' = [pc EXCEPT ![p] = "idle"]
  /\ op' = [op EXCEPT ![p] = "none"]
  /\ attempt' = [attempt EXCEPT ![p] = 0]
  /\ request' = [request EXCEPT ![p] = NoRequest]
  /\ result' = [result EXCEPT ![p] = NoResult]
  /\ calls' = [calls EXCEPT ![p] = 0]
  /\ delays' = [delays EXCEPT ![p] = 0]
  /\ settled' = [settled EXCEPT ![p] = NotSettled]
  /\ clientFailed' = [clientFailed EXCEPT ![p] = FALSE]
  /\ validationFailed' = [validationFailed EXCEPT ![p] = FALSE]
  /\ UNCHANGED <<now, configured, circuitBreaker, metrics, requestTimestamps,
                 silent, consecFails>>
  /\ UNCHANGED otherVars

\* faulty variant: the state is forced, the failures are kept
ResetMpesaCircuitBreaker_KeepsFailures ==
  /\ NoneDone
  /\ circuitBreaker' = [circuitBreaker EXCEPT !.state = "CLOSED", !.lastFailureTime = 0]
  /\ consecFails' = 0
  /\ UNCHANGED <<now, configured, metrics, requestTimestamps, pc, op, attempt,
                 request, result, calls, delays, silent, settled, clientFailed, validationFailed>>
  /\ UNCHANGED otherVars

ResetMpesaCircuitBreaker ==
  /\ NoneDone
  /\ circuitBreaker' = [failures |-> 0, lastFailureTime |-> 0, state |-> "CLOSED"]
  /\ consecFails' = 0
  /\ UNCHANGED <<now, configured, metrics, requestTimestamps, pc, op, attempt,
                 request, result, calls, delays, silent, settled, clientFailed, validationFailed>>
  /\ UNCHANGED otherVars

\* getMpesaHealth(): reads the breaker, the metrics and the configuration
GetMpesaHealth ==
  /\ NoneDone
  /\ health = NoHealth
  /\ health' = getMpesaHealth(circuitBreaker, metrics, configured)
  /\ UNCHANGED <<guardVars, exceptHealth>>

\* The holder of the health object writes to it: it sets the state and the
\* failures of the breaker in it and the totalRequests of the metrics in it.
\* A write to an object of the guard lands in the guard.
ModifyHealthSnapshot(st, n) ==
  LET cb == [health.circuitBreaker.fields EXCEPT !.state = st, !.failures = n]
      m == [health.metrics.fields EXCEPT !.totalRequests = n]
  IN  /\ health # NoHealth
      /\ ~health.written
      /\ health' = [health EXCEPT !.circuitBreaker.fields = cb,
                                  !.metrics.fields = m,
                                  !.written = TRUE]
      /\ circuitBreaker' = IF health.circuitBreaker.shared THEN cb ELSE circuitBreaker
      /\ metrics' = IF health.metrics.shared THEN m ELSE metrics
      /\ UNCHANGED <<now, configured, requestTimestamps, pc, op, attempt, request,
                     result, calls, delays, silent, settled, clientFailed,
                     validationFailed, consecFails>>
      /\ UNCHANGED exceptHealth

\* the holder of the health object is done with it
ReleaseHealth ==
  /\ health # NoHealth
  /\ health' = NoHealth
  /\ UNCHANGED <<guardVars, exceptHealth>>

\* retryWithBackoff computes the delay to wait after the failed attempt att
\* under the policy config; Math.random() returns k / JitterSteps
CalculateDelay(att, config, k) ==
  /\ retryDelay' = [attempt |-> att, config |-> config,
                    delay |-> calculateDelay(att, config, k)]
  /\ UNCHANGED <<guardVars, exceptDelay>>

\* updateMetrics(success, responseTime): the counters and the average
UpdateMetrics(success, responseTime) ==
  /\ Len(responseTimes) < MaxSamples
  /\ metrics' = updateMetrics(metrics, success)
  /\ averageResponseTime' =
       averageAfter(averageResponseTime, metrics'.totalRequests, responseTime)
  /\ responseTimes' = Append(responseTimes, responseTime)
  /\ UNCHANGED <<now, configured, circuitBreaker, requestTimestamps, pc, op, attempt,
                 request, result, calls, delays, silent, settled, clientFailed,
                 validationFailed, consecFails>>
  /\ UNCHANGED exceptAverage

CallerStep(p) ==
  \/ GetAccessToken(p)
  \/ \E req \in Requests : InitiateSTKPush(p, req)
  \/ \E v \in Values : AttemptSucceeds(p, v)
  \/ \E error \in ProviderErrors : AttemptFailsRetry(p, error)
  \/ \E error \in ProviderErrors : AttemptFailsFinal(p, error)
  \/ DelayElapses(p)
  \/ Return(p)

Next ==
  \/ Tick
  \/ ResetMpesaCircuitBreaker
  \/ \E p \in Callers : CallerStep(p)

Spec == Init /\ [][Next]_vars

\* ------------------------------------------------- rate-limited entry point
\* One caller using initiateSTKPushWithRateLimit only, with requests that the
\* guard rejects or admits; the window fills up to RATE_LIMIT_MAX_REQUESTS.
RateRequests ==
  {r \in Requests : r.phone # "" /\ r.accountReference # "" /\ r.hasAmount /\ r.amount # 0}

RateLimitedCall(p) ==
  \E req \in RateRequests :
    /\ InitiateSTKPushWithRateLimit(p, req)
    /\ pc'[p] = "attempt" => metrics.totalRequests < MaxRateCalls

RateTick == AdvanceClock(MaxRateTicks)

\* the provider's answers in this specification: a value, or a client error
RateNext ==
  \/ RateTick
  \/ RateLimitedCall(1)
  \/ AttemptSucceeds(1, "v1")
  \/ AttemptFailsFinal(1, [cls |-> "Error", status |-> 400])
  \/ Return(1)

SpecRate == Init /\ [][RateNext]_vars

\* ------------------------------------------------ a provider that may hang
\* One caller.  The provider call of an attempt is awaited as it is: nothing
\* in retryWithBackoff or in the guarded operations races it against a timer
\* (fetchWithTimeout has no call site), so an attempt the provider never
\* answers stays pending.
ProviderNeverAnswers(p) ==
  /\ pc[p] = "attempt"
  /\ ~silent[p]
  /\ silent' = [silent EXCEPT ![p] = TRUE]
  /\ UNCHANGED <<now, configured, circuitBreaker, metrics, requestTimestamps, pc, op,
                 attempt, request, result, calls, delays, settled, clientFailed,
                 validationFailed, consecFails>>
  /\ UNCHANGED otherVars

\* the provider settles the pending attempt of p, unless it never answers
ProviderAnswers(p) ==
  \/ \E v \in Values : AttemptSucceeds(p, v)
  \/ \E error \in ProviderErrors : AttemptFailsRetry(p, error)
  \/ \E error \in ProviderErrors : AttemptFailsFinal(p, error)

HangNext ==
  \/ Tick
  \/ ResetMpesaCircuitBreaker
  \/ CallerStep(1)
  \/ ProviderNeverAnswers(1)

\* The event loop runs every timer that is due and every continuation that is
\* ready, and a provider that has not gone silent answers.
FairSpec ==
  /\ Init /\ [][HangNext]_vars
  /\ WF_vars(Tick)
  /\ WF_vars(DelayElapses(1))
  /\ WF_vars(Return(1))
  /\ WF_vars(ProviderAnswers(1))

\* ------------------------------------------------------------- health check
\* One caller, resets, and a task that asks for the health of the guard; that
\* task uses the object it gets before it gives way to any other: while it
\* holds the object it may reset the breaker and start a guarded call.
HealthRequest ==
  [phone |-> "254700000001", hasAmount |-> TRUE, amount |-> 100, accountReference |-> "INV-1"]

HealthNext ==
  \/ health = NoHealth /\ Tick
  \/ ResetMpesaCircuitBreaker
  \/ /\ Len(requestTimestamps) < MaxHealthWindow
     /\ InitiateSTKPushWithRateLimit(1, HealthRequest)
  \/ health = NoHealth /\ InitiateSTKPush(1, HealthRequest)
  \/ health = NoHealth /\ AttemptSucceeds(1, "v1")
  \/ health = NoHealth /\ AttemptFailsFinal(1, [cls |-> "Error", status |-> 400])
  \/ health = NoHealth /\ Return(1)
  \/ GetMpesaHealth
  \/ \E st \in {"CLOSED", "OPEN"}, n \in {0, 7} : ModifyHealthSnapshot(st, n)
  \/ ReleaseHealth

SpecHealth == Init /\ [][HealthNext]_vars

\* -------------------------------------------------------------- retry delay
DelayNext ==
  \E att \in 1..MaxDelayAttempt, config \in RetryConfigs, k \in 0..(JitterSteps - 1) :
    CalculateDelay(att, config, k)

SpecDelay == Init /\ [][DelayNext]_vars

\* ---------------------------------------------------- average response time
\* The outcomes of guarded calls as updateMetrics is told them, with their
\* response times.
AverageNext ==
  \E success \in BOOLEAN, responseTime \in ResponseTimes :
    UpdateMetrics(success, responseTime)

SpecAverage == Init /\ [][AverageNext]_vars

\* ----------------------------------------------------------- reading steps
\* What one step did, read from the state before and after it.

\* p started a guarded call
Started(p) == pc[p] = "idle" /\ pc'[p] # "idle"

\* p's guarded call recorded its outcome (the provider sequence ended)
Completed(p) == pc[p] = "attempt" /\ pc'[p] = "done"
CompletedOk(p) == Completed(p) /\ result'[p].kind = "ok"
CompletedFailed(p) == Completed(p) /\ result'[p].kind # "ok"

\* p made a provider call
ProviderCalled(p) == calls'[p] > calls[p]

\* the request has phone, amount and accountReference, and its amount is positive
WellFormed(req) ==
  /\ req.phone # ""
  /\ req.hasAmount /\ req.amount > 0
  /\ req.accountReference # ""

\* the call p started reaches the breaker check: credentials are configured
\* and, for initiateSTKPush, the request is well formed
ReachesBreaker(p) ==
  /\ Started(p)
  /\ configured
  /\ op'[p] = "token" \/ WellFormed(request'[p])

CooldownElapsed == now - circuitBreaker.lastFailureTime >= 60000

\* --------------------------------------------------------------------- C1
\* C1: once 5 or more guarded calls have failed in a row the breaker is Open
\* (HalfOpen at most after a later check found the cooldown elapsed), and a
\* guarded call started while the breaker is Open and less than 60 s after the
\* last failure fails fast with the ExternalService "circuit breaker open"
\* error, makes no provider call and leaves the breaker as it was.
C1_OpenAfterFiveFailures ==
  /\ [](consecFails >= 5 => circuitBreaker.state # "CLOSED")
  /\ [][/\ (consecFails' > consecFails /\ consecFails' >= 5)
             => circuitBreaker'.state = "OPEN"
        /\ \A p \in Callers :
             (ReachesBreaker(p) /\ circuitBreaker.state = "OPEN" /\ ~CooldownElapsed)
               => /\ pc'[p] = "done"
                  /\ result'[p] = BreakerOpenError
                  /\ calls'[p] = 0
                  /\ circuitBreaker' = circuitBreaker]_vars

C1_Witness ==
  \E p \in Callers :
    /\ pc[p] = "done" /\ result[p] = BreakerOpenError /\ calls[p] = 0
    /\ consecFails >= 5 /\ circuitBreaker.state = "OPEN" /\ ~CooldownElapsed

\* --------------------------------------------------------------------- C2
\* C2: a guarded call started while the breaker is Open and the cooldown has
\* elapsed is admitted and makes its first provider call with the breaker
\* HalfOpen; a guarded call that succeeds while the breaker is HalfOpen leaves
\* it Closed with failures = 0, and one that fails while it is HalfOpen leaves
\* it Open with lastFailureTime = the time of that failure, so that the
\* cooldown has not elapsed.
C2_HalfOpenProbe ==
  [][\A p \in Callers :
       /\ (ReachesBreaker(p) /\ circuitBreaker.state = "OPEN" /\ CooldownElapsed)
            => /\ pc'[p] = "attempt" /\ calls'[p] = 1
               /\ circuitBreaker'.state = "HALF_OPEN"
       /\ (CompletedOk(p) /\ circuitBreaker.state = "HALF_OPEN")
            => /\ circuitBreaker'.state = "CLOSED"
               /\ circuitBreaker'.failures = 0
       /\ (CompletedFailed(p) /\ circuitBreaker.state = "HALF_OPEN")
            => /\ circuitBreaker'.state = "OPEN"
               /\ circuitBreaker'.lastFailureTime = now
               /\ now' - circuitBreaker'.lastFailureTime < 60000]_vars

C2_Witness ==
  \E p \in Callers :
    /\ pc[p] = "attempt" /\ calls[p] = 1
    /\ circuitBreaker.state = "HALF_OPEN" /\ CooldownElapsed

\* --------------------------------------------------------------------- C3
\* C3: initiateSTKPush with a request that lacks phone, amount or
\* accountReference or whose amount is <= 0 throws a Validation error, makes no
\* provider call and leaves breaker and metrics unchanged, in every breaker
\* state.
C3_InvalidRequestRejected ==
  [][\A p \in Callers :
       (Started(p) /\ op'[p] = "stk" /\ ~WellFormed(request'[p]))
         => /\ pc'[p] = "done"
            /\ result'[p].kind = "Validation"
            /\ calls'[p] = 0
            /\ circuitBreaker' = circuitBreaker
            /\ metrics' = metrics]_vars

C3_Witness ==
  \E p \in Callers :
    /\ pc[p] = "done" /\ op[p] = "stk"
    /\ request[p].hasAmount /\ request[p].amount < 0
    /\ request[p].phone # "" /\ request[p].accountReference # ""
    /\ result[p].kind = "Validation" /\ calls[p] = 0
    /\ configured
    /\ circuitBreaker.state = "OPEN" /\ CooldownElapsed

\* --------------------------------------------------------------------- C4
\* C4: no provider call is made by a guarded call after one of its attempts
\* failed with a status in 400..499; a call whose first attempt failed so made
\* exactly one provider call and throws that error (as thrown, or as the cause
\* of the wrapping ExternalService error).
C4_ClientErrorNotRetried ==
  /\ [][\A p \in Callers : ProviderCalled(p) => ~clientFailed[p]]_vars
  /\ [](\A p \in Callers :
          (pc[p] = "done" /\ clientFailed[p])
            => /\ settled[p].error.status \in 400..499
               /\ result[p].cause = settled[p].error
               /\ (attempt[p] = 1 => calls[p] = 1 /\ delays[p] = 0))

C4_Witness ==
  \E p \in Callers :
    /\ pc[p] = "done" /\ clientFailed[p] /\ calls[p] = 1
    /\ result[p].cause.status = 400

\* --------------------------------------------------------------------- C5
\* C5: with M = 3 for initiateSTKPush and M = 2 for getAccessToken, a guarded
\* call none of whose attempts failed with a status in 400..499 ends either
\* with the value of its first successful attempt k <= M after exactly k
\* provider calls and k-1 delays, or with the error of attempt M after exactly
\* M provider calls and M-1 delays.
RetriesOf(o) == IF o = "token" THEN 2 ELSE 3

C5_AttemptsAndDelays ==
  \A p \in Callers :
    (pc[p] = "done" /\ calls[p] >= 1 /\ ~clientFailed[p])
      => /\ delays[p] = calls[p] - 1
         /\ calls[p] = attempt[p]
         /\ result[p].kind = "ok"
              => /\ calls[p] <= RetriesOf(op[p])
                 /\ result[p].value = settled[p].value
                 /\ result[p].value \in Values
         /\ result[p].kind # "ok"
              => /\ calls[p] = RetriesOf(op[p])
                 /\ result[p].cause = settled[p].error
                 /\ result[p].cause \in ProviderErrors

C5_Witness ==
  \E p \in Callers :
    /\ pc[p] = "done" /\ op[p] = "stk" /\ ~clientFailed[p]
    /\ calls[p] = 3 /\ delays[p] = 2 /\ result[p].kind = "ok"

\* --------------------------------------------------------------------- C7
\* C7: a Validation error never causes a retry and never trips the breaker:
\* no provider call follows an attempt that failed with a ValidationError, and
\* a guarded call that ends with a Validation error (thrown by the request
\* checks or by the provider call) leaves failures and breaker state as they
\* were.
C7_ValidationNeverTrips ==
  [][\A p \in Callers :
       /\ ProviderCalled(p) => ~validationFailed[p]
       /\ (pc[p] # "done" /\ pc'[p] = "done" /\ result'[p].kind = "Validation")
            => /\ circuitBreaker'.failures = circuitBreaker.failures
               /\ circuitBreaker'.state = circuitBreaker.state]_vars

\* --------------------------------------------------------------------- C8
\* C8: without credentials getAccessToken and initiateSTKPush throw at once an
\* error of kind Configuration (neither Validation nor ExternalService), make
\* no provider call and leave breaker and metrics unchanged.
C8_ConfigurationError ==
  [][\A p \in Callers :
       (Started(p) /\ ~configured)
         => /\ pc'[p] = "done"
            /\ result'[p].kind = "Configuration"
            /\ calls'[p] = 0
            /\ circuitBreaker' = circuitBreaker
            /\ metrics' = metrics]_vars

\* --------------------------------------------------------------------- C9
\* C9: a failed initiateSTKPush throws a Validation or an ExternalService
\* error: a ValidationError or ExternalServiceError of the provider call as it
\* was thrown, any other error wrapped in an ExternalService error; a failed
\* getAccessToken that got past the credentials check throws an ExternalService
\* error.  The step in which the provider sequence fails records the failure
\* in metrics and breaker.
C9_FailureKinds ==
  /\ [](\A p \in Callers :
          (pc[p] = "done" /\ result[p].kind # "ok")
            => /\ op[p] = "stk"
                    => /\ result[p].kind \in {"Validation", "ExternalService"}
                       /\ (calls[p] >= 1 /\ settled[p].error.cls = "ValidationError")
                            => result[p] = Err("Validation", "as thrown", settled[p].error)
                       /\ (calls[p] >= 1 /\ settled[p].error.cls = "ExternalServiceError")
                            => result[p] = Err("ExternalService", "as thrown", settled[p].error)
                       /\ (calls[p] >= 1 /\ settled[p].error.cls = "Error")
                            => /\ result[p].kind = "ExternalService"
                               /\ result[p].msg # "as thrown"
                               /\ result[p].cause = settled[p].error
               /\ (op[p] = "token" /\ configured)
                    => result[p].kind = "ExternalService")
  /\ [][\A p \in Callers :
          CompletedFailed(p)
            => /\ metrics'.totalRequests = metrics.totalRequests + 1
               /\ metrics'.failedRequests = metrics.failedRequests + 1
               /\ metrics'.successfulRequests = metrics.successfulRequests
               /\ circuitBreaker'.failures = circuitBreaker.failures + 1
               /\ circuitBreaker'.lastFailureTime = now]_vars

C9_Witness ==
  \E p \in Callers :
    /\ pc[p] = "done" /\ op[p] = "stk" /\ calls[p] >= 1
    /\ settled[p].error.cls = "ValidationError"
    /\ result[p].kind = "Validation"
    /\ metrics.failedRequests >= 1 /\ circuitBreaker.failures >= 1

\* --------------------------------------------------------------------- C6
\* C6: a call of initiateSTKPushWithRateLimit made when 100 accepted calls are
\* younger than 60 s is rejected with the ExternalService "rate limit
\* exceeded" error, makes no provider call and records nothing; otherwise it
\* is accepted: it is not rejected for the rate, the window keeps every entry
\* younger than 60 s and gains the time of the call.  An entry stops counting
\* once 60 s have elapsed since its time.
RecentCount(ts, t) == Cardinality({i \in 1..Len(ts) : t - ts[i] < 60000})
CountAt(ts, x) == Cardinality({i \in 1..Len(ts) : ts[i] = x})
ClockValues == {k * TickMs : k \in 0..(MaxRateTicks + 1)}

C6_RateLimit ==
  [][\A p \in Callers :
       Started(p)
         => IF RecentCount(requestTimestamps, now) >= 100
            THEN /\ pc'[p] = "done"
                 /\ result'[p] = RateLimitError
                 /\ calls'[p] = 0
                 /\ UNCHANGED <<requestTimestamps, circuitBreaker, metrics>>
            ELSE /\ result'[p] # RateLimitError
                 /\ RecentCount(requestTimestamps', now)
                      = RecentCount(requestTimestamps, now) + 1
                 /\ \A x \in ClockValues :
                      now - x < 60000
                        => CountAt(requestTimestamps', x)
                             = CountAt(requestTimestamps, x) + (IF x = now THEN 1 ELSE 0)]_vars

C6_Witness ==
  /\ pc[1] = "done" /\ result[1] = RateLimitError /\ calls[1] = 0
  /\ RecentCount(requestTimestamps, now) = 100
  /\ CountAt(requestTimestamps, 0) > 0 /\ now > 0

\* -------------------------------------------------------------------- C10
\* C10: every guarded call that reached the provider terminates, also when
\* the provider never answers an attempt.
C10_EveryCallTerminates ==
  (pc[1] = "attempt" \/ pc[1] = "delay") ~> (pc[1] = "done")

\* -------------------------------------------------------------------- C11
\* C11: getMpesaHealth returns healthy = TRUE iff the breaker is Closed and
\* the credentials are configured, with the breaker and the metrics as they
\* are, and changes nothing: breaker, metrics and rate window are after the
\* call what they were before it, also when the breaker is Open and the
\* cooldown has elapsed; and a write to the returned object changes nothing
\* in the guard.
C11_HealthIsPureRead ==
  [][/\ (health = NoHealth /\ health' # NoHealth)
          => /\ health'.healthy <=> (circuitBreaker.state = "CLOSED" /\ configured)
             /\ health'.configured = configured
             /\ health'.circuitBreaker.fields = circuitBreaker
             /\ health'.metrics.fields = metrics
             /\ UNCHANGED <<circuitBreaker, metrics, requestTimestamps>>
     /\ (health # NoHealth /\ health' # NoHealth /\ health' # health)
          => UNCHANGED <<circuitBreaker, metrics, requestTimestamps, configured>>]_vars

C11_Witness ==
  /\ health # NoHealth /\ health.written
  /\ health.circuitBreaker.fields.state = "CLOSED"
  /\ ~health.healthy /\ configured
  /\ circuitBreaker.state = "OPEN" /\ CooldownElapsed
  /\ circuitBreaker.failures = 5

\* -------------------------------------------------------------------- C12
\* C12: resetMpesaCircuitBreaker leaves the breaker Closed with failures = 0,
\* whatever its state was, and leaves the metrics and the rate window as they
\* were; a guarded call that reaches the breaker check while the breaker is as
\* the reset left it is admitted and makes its first provider call.
C12_ResetCloses ==
  [][/\ ResetMpesaCircuitBreaker
          => /\ circuitBreaker'.state = "CLOSED"
             /\ circuitBreaker'.failures = 0
             /\ UNCHANGED <<metrics, requestTimestamps>>
     /\ \A p \in Callers :
          (ReachesBreaker(p) /\ circuitBreaker.state = "CLOSED" /\ circuitBreaker.failures = 0)
            => /\ pc'[p] = "attempt"
               /\ calls'[p] = 1
               /\ circuitBreaker' = circuitBreaker]_vars

\* the health object taken just before the reset shows the breaker Open with
\* the cooldown running; the call started after the reset is admitted
C12_Witness ==
  /\ health # NoHealth /\ ~health.written
  /\ health.circuitBreaker.fields.state = "OPEN"
  /\ now - health.circuitBreaker.fields.lastFailureTime < 60000
  /\ health.metrics.fields = metrics
  /\ requestTimestamps # <<>>
  /\ circuitBreaker.state = "CLOSED" /\ circuitBreaker.failures = 0
  /\ pc[1] = "attempt" /\ calls[1] = 1

\* -------------------------------------------------------------------- C13
\* C13: the delay d waited after the failed attempt n >= 1 under the policy
\* (base, mult, maxDelay) satisfies
\*   min(base * mult^(n-1), maxDelay) <= d <= min(1.1 * base * mult^(n-1), maxDelay),
\* so d never exceeds maxDelay.  (Both sides times DelayScale; 1.1 x is 11 x / 10.)
BackoffOf(rd) == rd.config.baseDelay * Pow(rd.config.backoffMultiplier, rd.attempt - 1)

C13_DelayBounds ==
  retryDelay # NoDelay
    => /\ Min(BackoffOf(retryDelay), retryDelay.config.maxDelay) * DelayScale
            <= retryDelay.delay
       /\ retryDelay.delay
            <= Min(11 * BackoffOf(retryDelay) * JitterSteps,
                   retryDelay.config.maxDelay * DelayScale)
       /\ retryDelay.delay <= retryDelay.config.maxDelay * DelayScale

\* the jitter lifts the delay above the backoff and the cap cuts it
C13_Witness ==
  /\ retryDelay # NoDelay
  /\ BackoffOf(retryDelay) = 1000
  /\ retryDelay.config.maxDelay = 1050
  /\ retryDelay.delay = 1050 * DelayScale

\* -------------------------------------------------------------------- C14
\* C14 (as stated): after k >= 1 outcomes have been recorded,
\* averageResponseTime equals the arithmetic mean of the k recorded response
\* times: averageResponseTime * k = their sum, as JavaScript evaluates it, or
\* averageResponseTime = sum / k, as JavaScript evaluates it.
RECURSIVE SumOf(_)
SumOf(seq) == IF seq = <<>> THEN 0 ELSE Head(seq) + SumOf(Tail(seq))

C14_AverageIsMean ==
  Len(responseTimes) >= 1
    => \/ Times(averageResponseTime, Len(responseTimes)) = DoubleOf(SumOf(responseTimes))
       \/ averageResponseTime = DividedBy(DoubleOf(SumOf(responseTimes)), Len(responseTimes))

\* a <= b for natural numbers
RECURSIVE LeqFrom(_, _, _)
LeqFrom(a, b, i) ==
  IF i = 0 THEN TRUE
  ELSE IF a[i] # b[i] THEN a[i] < b[i]
  ELSE LeqFrom(a, b, i - 1)

Leq(a, b) ==
  IF Len(a) # Len(b) THEN Len(a) < Len(b) ELSE LeqFrom(a, b, Len(a))

\* a - b from limb i on for a >= b, c a borrow
RECURSIVE SubFrom(_, _, _, _)
SubFrom(a, b, i, c) ==
  IF i > Len(a) THEN <<>>
  ELSE LET t == a[i] - At(b, i) - c
       IN  <<t % Limb>> \o SubFrom(a, b, i + 1, IF t < 0 THEN 1 ELSE 0)

AbsDiff(a, b) == IF Leq(a, b) THEN Trim(SubFrom(b, a, 1, 0)) ELSE Trim(SubFrom(a, b, 1, 0))

\* C14 (amended): after k >= 1 outcomes have been recorded, totalRequests = k
\* and averageResponseTime is the arithmetic mean of the k recorded response
\* times within floating-point tolerance:
\*   |averageResponseTime * k - sum| <= k * 2^-51 * sum   (in exact arithmetic).
C14_AverageNearMean ==
  LET k == Len(responseTimes)
      scale == IF averageResponseTime.e < 0 THEN 0 - averageResponseTime.e ELSE 0
      avgTimesK == ShiftLeft(MulSmall(averageResponseTime.m, k),
                             averageResponseTime.e + scale)
      sum == ShiftLeft(Limbs(SumOf(responseTimes)), scale)
  IN  /\ metrics.totalRequests = k
      /\ Leq(ShiftLeft(AbsDiff(avgTimesK, sum), 51), MulSmall(sum, k))

\* eight response times whose mean is 3750 and whose stored average is the
\* double just below 3750
C14_Witness ==
  /\ responseTimes = <<0, 0, 0, 0, 0, 0, 30000, 0>>
  /\ averageResponseTime # DoubleOf(3750)
  /\ averageResponseTime.e = DoubleOf(3750).e
  /\ Add(averageResponseTime.m, <<1>>) = DoubleOf(3750).m

\* ------------------------------------------------------- the AI usage monitor
\* src/server/ai/usage-monitor.ts. The costs of the records stay far below
\* the monthly cost limit for the few records of a behaviour, so the cost
\* checks never fire and the records carry no cost.

\* getUsageStats(timeWindow).dailyCalls / .monthlyCalls
CallsSince(windowStart) ==
  Len(SelectSeq(usageRecords, LAMBDA r : r.timestamp >= windowStart))

dailyCalls == CallsSince(usageNow - DayHours)
monthlyCalls == CallsSince(usageNow - MonthHours)

\* checkLimits throws
checkLimitsThrows ==
  /\ isEnabled
  /\ \/ dailyCalls >= limits.dailyCalls
     \/ monthlyCalls >= limits.monthlyCalls

\* canMakeRequest(...).allowed
canMakeRequest ==
  \/ ~isEnabled
  \/ /\ ~(dailyCalls + 1 >= limits.dailyCalls)
     /\ ~(monthlyCalls + 1 >= limits.monthlyCalls)

\* usageRecords after recordUsage(..., success)
recordUsage(success) ==
  IF ~isEnabled
  THEN usageRecords
  ELSE SelectSeq(Append(usageRecords, [timestamp |-> usageNow, success |-> success]),
                 LAMBDA r : r.timestamp >= usageNow - RetentionHours)

\* Time passes.
UsageTick ==
  /\ usageNow + UsageTickHours <= MaxUsageTicks * UsageTickHours
  /\ usageNow' = usageNow + UsageTickHours
  /\ UNCHANGED <<usageRecords, limits, isEnabled, usagePc, usageResult, invocations>>
  /\ UNCHANGED <<guardVars, exceptUsage>>

\* updateLimits({dailyCalls: l}), as the deployment's configuration: before
\* the monitor is used.
UpdateLimits(l) ==
  /\ usageRecords = <<>>
  /\ invocations = <<>>
  /\ \A t \in UsageTasks : usagePc[t] = "idle"
  /\ limits.dailyCalls # l
  /\ limits' = [limits EXCEPT !.dailyCalls = l]
  /\ UNCHANGED <<usageNow, usageRecords, isEnabled, usagePc, usageResult, invocations>>
  /\ UNCHANGED <<guardVars, exceptUsage>>

\* faulty variant: a call rejected for a limit is not recorded
TrackAIUsage_RejectionNotRecorded(t, estimated) ==
  /\ usagePc[t] = "idle"
  /\ Len(usageRecords) < MaxUsageRecords
  /\ IF checkLimitsThrows \/ (estimated /\ ~canMakeRequest)
     THEN /\ usageResult' = [usageResult EXCEPT ![t] = "limit"]
          /\ UNCHANGED <<usageRecords, usagePc, invocations>>
     ELSE /\ usagePc' = [usagePc EXCEPT ![t] = "method"]
          /\ invocations' = Append(invocations, usageNow)
          /\ usageResult' = [usageResult EXCEPT ![t] = "none"]
          /\ UNCHANGED usageRecords
  /\ UNCHANGED <<usageNow, limits, isEnabled>>
  /\ UNCHANGED <<guardVars, exceptUsage>>

\* The wrapper installed by trackAIUsage, up to its await: the limit checks,
\* then either the failed record and the rethrown limit error, or the call of
\* the wrapped method. estimated: the decorator was given estimatedInputTokens.
TrackAIUsage(t, estimated) ==
  /\ usagePc[t] = "idle"
  /\ Len(usageRecords) < MaxUsageRecords
  /\ IF checkLimitsThrows \/ (estimated /\ ~canMakeRequest)
     THEN /\ usageRecords' = recordUsage(FALSE)
          /\ usageResult' = [usageResult EXCEPT ![t] = "limit"]
          /\ UNCHANGED <<usagePc, invocations>>
     ELSE /\ usagePc' = [usagePc EXCEPT ![t] = "method"]
          /\ invocations' = Append(invocations, usageNow)
          /\ usageResult' = [usageResult EXCEPT ![t] = "none"]
          /\ UNCHANGED usageRecords
  /\ UNCHANGED <<usageNow, limits, isEnabled>>
  /\ UNCHANGED <<guardVars, exceptUsage>>

\* The wrapped method's promise settles: the wrapper records the usage and
\* returns the result, or records the failure and rethrows.
MethodSettles(t, success) ==
  /\ usagePc[t] = "method"
  /\ usageRecords' = recordUsage(success)
  /\ usageResult' = [usageResult EXCEPT ![t] = IF success THEN "result" ELSE "error"]
  /\ usagePc' = [usagePc EXCEPT ![t] = "idle"]
  /\ UNCHANGED <<usageNow, limits, isEnabled, invocations>>
  /\ UNCHANGED <<guardVars, exceptUsage>>

UsageNext ==
  \/ UsageTick
  \/ \E l \in 1 .. MaxDailyLimit : UpdateLimits(l)
  \/ \E t \in UsageTasks, estimated \in BOOLEAN : TrackAIUsage(t, estimated)
  \/ \E t \in UsageTasks, success \in BOOLEAN : MethodSettles(t, success)

SpecUsage == Init /\ [][UsageNext]_vars

\* C15 (as stated): with monitoring enabled and daily limit L, the wrapped
\* method is invoked at most L times within any 24-hour window (a window
\* that starts at an invocation holds at most L invocations).
InvocationsInDay(start) ==
  Len(SelectSeq(invocations, LAMBDA s : s >= start /\ s < start + DayHours))

C15_AtMostLimitPerDay ==
  isEnabled =>
    \A i \in 1 .. Len(invocations) :
      InvocationsInDay(invocations[i]) <= limits.dailyCalls

\* ------------------------------------------------------------ secure settings
Stars == <<"*", "*", "*", "*">>

\* value.slice(-2)
LastTwo(value) ==
  IF Len(value) <= 2 THEN value ELSE SubSeq(value, Len(value) - 1, Len(value))

\* (faulty variant) short values are shown as they are
maskValue_ShowsShort(value, settingName) ==
  IF settingName \notin SettingNames \/ ~ConfigOf(settingName).sensitive
  THEN value
  ELSE IF Len(value) <= 4 THEN value ELSE Stars \o LastTwo(value)

maskValue(value, settingName) ==
  IF settingName \notin SettingNames \/ ~ConfigOf(settingName).sensitive
  THEN value
  ELSE IF Len(value) <= 4 THEN Stars ELSE Stars \o LastTwo(value)

\* the SecureSetting built by getSetting and by getAllSettings
SecureSetting(config) ==
  LET value == env[config.name]
      masked == config.sensitive /\ Len(value) > 0
  IN [name |-> config.name,
      value |-> IF masked THEN maskValue(value, config.name) ELSE value,
      sensitive |-> config.sensitive,
      editable |-> config.editable,
      masked |-> masked]

\* config.validator(value), TRUE for a setting without a validator
Validates(config, value) ==
  CASE config.validator = "length" -> Len(value) >= MinPasswordLength
    [] config.validator = "digits" ->
         value # <<>> /\ \A i \in 1 .. Len(value) : value[i] \in Digits
    [] OTHER -> TRUE

\* newValue.trim()
RECURSIVE TrimStart(_)
TrimStart(value) ==
  IF value # <<>> /\ Head(value) = " " THEN TrimStart(Tail(value)) ELSE value

RECURSIVE TrimEnd(_)
TrimEnd(value) ==
  IF value # <<>> /\ value[Len(value)] = " "
  THEN TrimEnd(SubSeq(value, 1, Len(value) - 1))
  ELSE value

\* newValue.trim().replace(/[\r\n]/g, ""): no value here holds a CR or an LF
Sanitize(newValue) == TrimEnd(TrimStart(newValue))

GetAllSettings ==
  /\ settingsResult' =
       [kind |-> "settings",
        settings |-> [i \in 1 .. Len(SETTINGS_CONFIG) |-> SecureSetting(SETTINGS_CONFIG[i])]]
  /\ UNCHANGED env
  /\ UNCHANGED <<guardVars, exceptSettings>>

GetSetting(name) ==
  /\ settingsResult' =
       IF name \notin SettingNames
       THEN [kind |-> "null"]
       ELSE [kind |-> "settings", settings |-> <<SecureSetting(ConfigOf(name))>>]
  /\ UNCHANGED env
  /\ UNCHANGED <<guardVars, exceptSettings>>

UpdateSetting(name, newValue) ==
  /\ IF name \notin SettingNames
     THEN /\ settingsResult' = [kind |-> "update", success |-> FALSE, error |-> "Setting not found"]
          /\ UNCHANGED env
     ELSE IF ~ConfigOf(name).editable
     THEN /\ settingsResult' = [kind |-> "update", success |-> FALSE, error |-> "Setting is not editable"]
          /\ UNCHANGED env
     ELSE IF ~Validates(ConfigOf(name), newValue)
     THEN /\ settingsResult' = [kind |-> "update", success |-> FALSE, error |-> "Invalid value format"]
          /\ UNCHANGED env
     ELSE /\ settingsResult' = [kind |-> "update", success |-> TRUE, error |-> ""]
          /\ env' = IF newValue = env[name]
                    THEN env
                    ELSE [env EXCEPT ![name] = Sanitize(newValue)]
  /\ UNCHANGED <<guardVars, exceptSettings>>

\* the values a caller may give to a setting
ValuesFor(name) ==
  IF name = "AI_ADMIN_PASSWORD" THEN Padded(Passwords)
  ELSE IF name = "MPESA_SHORTCODE" THEN Padded(ShortCodes)
  ELSE IF name \in SettingNames /\ ConfigOf(name).sensitive
  THEN Typed(MaxValueLen)
  ELSE Typed(MaxPlainLen)

\* reading and writing the settings that have no validator
SettingsNext ==
  \/ GetAllSettings
  \/ \E name \in Unvalidated \cup {UnknownSetting} : GetSetting(name)
  \/ \E name \in Unvalidated \cup {UnknownSetting} :
       \E newValue \in ValuesFor(name) : UpdateSetting(name, newValue)

SpecSettings == Init /\ [][SettingsNext]_vars

\* reading and writing the settings that have a validator
ValidatedNext ==
  \/ \E name \in Validated : GetSetting(name)
  \/ \E name \in Validated \cup {UnknownSetting} :
       \E newValue \in ValuesFor(name) : UpdateSetting(name, newValue)

SpecValidated == Init /\ [][ValidatedNext]_vars

\* the settings that the last getSetting / getAllSettings returned
Returned ==
  IF settingsResult.kind = "settings"
  THEN {settingsResult.settings[i] : i \in 1 .. Len(settingsResult.settings)}
  ELSE {}

\* '****' for a raw value of at most 4 characters, otherwise '****' followed
\* by its last 2 characters
MaskedForm(raw) ==
  IF Len(raw) <= 4 THEN Stars ELSE Stars \o <<raw[Len(raw) - 1], raw[Len(raw)]>>

ReturnedInForm ==
  \A r \in Returned :
    IF r.sensitive /\ env[r.name] # <<>>
    THEN r.masked /\ r.value = MaskedForm(env[r.name])
    ELSE ~r.sensitive => (~r.masked /\ r.value = env[r.name])

\* C16 (as stated): a sensitive setting with a non-empty value is never
\* returned with its raw value: it is returned in the masked form with
\* masked = true; a setting that is not sensitive is returned unmasked with
\* masked = false.
C16_NeverRaw ==
  /\ ReturnedInForm
  /\ \A r \in Returned :
       (r.sensitive /\ env[r.name] # <<>>) => r.value # env[r.name]

\* a raw value that is its own masked form
LooksMasked(raw) ==
  \/ raw = Stars
  \/ Len(raw) = 6 /\ SubSeq(raw, 1, 4) = Stars

\* C16 (amended): the returned settings are in the masked form, and a
\* sensitive setting is returned with its raw value exactly when the raw value
\* is itself '****' or '****' followed by 2 characters.
C16_MaskedForm ==
  /\ ReturnedInForm
  /\ \A r \in Returned :
       (r.sensitive /\ env[r.name] # <<>>) =>
         (r.value = env[r.name] <=> LooksMasked(env[r.name]))

\* getAllSettings has returned a long secret masked and a plain setting as it is
C16_Witness ==
  /\ settingsResult.kind = "settings"
  /\ Len(settingsResult.settings) = Len(SETTINGS_CONFIG)
  /\ env["CRON_SECRET"] = <<"a", "*", "a", "a", "a", "*">>
  /\ env["SMTP_HOST"] = <<"a">>
  /\ settingsResult.settings[1].value = <<"*", "*", "*", "*", "a", "*">>
  /\ settingsResult.settings[1].masked
  /\ settingsResult.settings[2].value = <<"a">>
  /\ ~settingsResult.settings[2].masked

\* ------------------------------------------------------ admin route validator
\* src/server/admin-route-validator.ts. A path is the sequence of its parts
\* between slashes, path.split('/'): '/api/backup' is <<"", "api", "backup">>.
Route(method, path, middleware) ==
  [method |-> method, path |-> path, middleware |-> middleware]

\* the route table built into analyzeRoutes
adminRoutes ==
  << Route("GET", <<"", "debug", "admin">>, <<>>),
     Route("POST", <<"", "debug", "admin", "fix">>, <<>>),
     Route("POST", <<"", "debug", "admin", "test">>, <<>>),
     Route("POST", <<"", "debug", "admin", "reset-password">>, <<>>),
     Route("GET", <<"", "api", "admin", "users">>, <<"isManager">>),
     Route("POST", <<"", "api", "admin", "users">>, <<"isManager">>),
     Route("PATCH", <<"", "api", "admin", "users", ":id">>, <<"isManager">>),
     Route("DELETE", <<"", "api", "admin", "users", ":id">>, <<"isManager">>),
     Route("GET", <<"", "api", "admin", "settings">>, <<"isAdmin">>),
     Route("PUT", <<"", "api", "admin", "settings">>, <<"isAdmin">>),
     Route("GET", <<"", "api", "admin", "settings", "audit">>, <<"isAdmin">>),
     Route("GET", <<"", "api", "admin", "settings", ":name">>, <<"isAdmin">>),
     Route("PUT", <<"", "api", "admin", "settings", ":name">>, <<"isAdmin">>),
     Route("POST", <<"", "api", "backup">>, <<"isAdmin">>),
     Route("GET", <<"", "api", "backup", "history">>, <<"isAdmin">>),
     Route("DELETE", <<"", "api", "shops", ":id">>, <<"isAdmin">>),
     Route("DELETE", <<"", "api", "drivers", ":id">>, <<"isAdmin">>),
     Route("DELETE", <<"", "api", "routes", ":id">>, <<"isAdmin">>),
     Route("DELETE", <<"", "api", "targets", ":id">>, <<"isAdmin">>),
     Route("DELETE", <<"", "api", "products", ":id">>, <<"isAdmin">>),
     Route("DELETE", <<"", "api", "suppliers", ":id">>, <<"isAdmin">>),
     Route("DELETE", <<"", "api", "salespersons", ":id">>, <<"isAdmin">>),
     Route("DELETE", <<"", "api", "orders", ":id">>, <<"isAdmin">>) >>

\* the key `${route.method}:${route.path}` of the duplicate check
MethodPath(route) == <<route.method, route.path>>

\* the basePath of the overlap check: the first three parts of the path
BasePath(route) == SubSeq(route.path, 1, 3)

Includes(seq, x) == \E i \in 1 .. Len(seq) : seq[i] = x

\* the routes with their keys
Keyed(rs, keys) == [i \in 1 .. Len(rs) |-> [key |-> keys[i], route |-> rs[i]]]

\* Map.forEach: the groups of the keyed routes by key, in the order in which
\* the keys were first seen, that hold more than `above` routes
RECURSIVE Groups(_, _, _)
Groups(keyed, above, i) ==
  IF i > Len(keyed)
  THEN <<>>
  ELSE LET first == \A j \in 1 .. i - 1 : keyed[j].key # keyed[i].key
           group == SelectSeq(keyed, LAMBDA x : x.key = keyed[i].key)
       IN (IF first /\ Len(group) > above
           THEN <<[j \in 1 .. Len(group) |-> group[j].route]>>
           ELSE <<>>)
            \o Groups(keyed, above, i + 1)

Conflict(type, rs) == [type |-> type, routes |-> rs]

\* this.conflicts after detectConflicts() on the routes rs
detectConflicts(rs) ==
  LET duplicates == Groups(Keyed(rs, [i \in 1 .. Len(rs) |-> MethodPath(rs[i])]), 1, 1)
      adminUsersRoutes ==
        SelectSeq(rs, LAMBDA r : r.path = <<"", "api", "admin", "users">> /\ r.method = "POST")
      hasManager ==
        \E i \in 1 .. Len(adminUsersRoutes) : Includes(adminUsersRoutes[i].middleware, "isManager")
      hasAdmin ==
        \E i \in 1 .. Len(adminUsersRoutes) : Includes(adminUsersRoutes[i].middleware, "isAdmin")
      overlaps == Groups(Keyed(rs, [i \in 1 .. Len(rs) |-> BasePath(rs[i])]), 3, 1)
  IN [i \in 1 .. Len(duplicates) |-> Conflict("duplicate", duplicates[i])]
     \o (IF Len(adminUsersRoutes) > 0 /\ hasManager /\ hasAdmin
         THEN <<Conflict("middleware_conflict", adminUsersRoutes)>>
         ELSE <<>>)
     \o [i \in 1 .. Len(overlaps) |-> Conflict("overlap", overlaps[i])]

\* generateSummary(): the fields the callers read
generateSummary(rs, cs) ==
  [returned |-> TRUE,
   totalRoutes |-> Len(rs),
   totalConflicts |-> Len(cs),
   hasCriticalIssues |-> Len(cs) > 0]

AnalyzeRoutes ==
  /\ routes' = adminRoutes
  /\ conflicts' = detectConflicts(adminRoutes)
  /\ analysis' = generateSummary(routes', conflicts')
  /\ UNCHANGED <<guardVars, exceptRoutes>>

\* the admin console: the settings manager and the route validator
AdminNext ==
  \/ SettingsNext
  \/ AnalyzeRoutes

SpecAdmin == Init /\ [][AdminNext]_vars

\* C17 (as stated): analyzeRoutes on the built-in route table reports no
\* conflicts: conflicts is empty, totalRoutes = 25, totalConflicts = 0 and
\* hasCriticalIssues = false.
C17_NoConflicts ==
  analysis.returned =>
    /\ conflicts = <<>>
    /\ analysis.totalRoutes = 25
    /\ analysis.totalConflicts = 0
    /\ ~analysis.hasCriticalIssues

\* what analyzeRoutes reports: 23 routes and two overlap conflicts, for the
\* base paths /debug/admin (4 routes) and /api/admin (9 routes)
C17_WhatIsReported ==
  analysis.returned =>
    /\ analysis = [returned |-> TRUE, totalRoutes |-> 23, totalConflicts |-> 2,
                   hasCriticalIssues |-> TRUE]
    /\ Len(conflicts) = 2
    /\ conflicts[1].type = "overlap" /\ Len(conflicts[1].routes) = 4
    /\ BasePath(conflicts[1].routes[1]) = <<"", "debug", "admin">>
    /\ conflicts[2].type = "overlap" /\ Len(conflicts[2].routes) = 9
    /\ BasePath(conflicts[2].routes[1]) = <<"", "api", "admin">>

\* ------------------------------------------- the shops of the test application
\* src/tests/integration/api.test.ts, createTestApp. An object is the function
\* from the names of its fields to their values.

\* `test-${n}`
TestId(n) == <<"test-1", "test-2", "test-3", "test-4", "test-5">>[n]

\* the ids a client puts in a path or in a body
RequestIds == {TestId(n) : n \in 1 .. MaxIds} \cup {"non-existent"}

\* the object with the fields named in S
Pick(object, S) == [k \in S |-> object[k]]

\* req.body: each field present or not; an empty name is falsy
Bodies ==
  {Pick(full, S) :
     full \in [id : RequestIds, name : {"", "Shop"}, latitude : {0}, longitude : {0}],
     S \in SUBSET {"id", "name", "latitude", "longitude"}}

\* { ...a, ...b }
Spread(a, b) ==
  [k \in DOMAIN a \cup DOMAIN b |-> IF k \in DOMAIN b THEN b[k] ELSE a[k]]

\* the status of GET /api/shops/:id
GetStatus(id) == IF id \in DOMAIN shops THEN 200 ELSE 404

\* !name || latitude == null || longitude == null
InvalidShop(body) ==
  \/ "name" \notin DOMAIN body
  \/ body.name = ""
  \/ "latitude" \notin DOMAIN body
  \/ "longitude" \notin DOMAIN body

PostShop(body) ==
  /\ IF InvalidShop(body)
     THEN /\ response' = [method |-> "POST", status |-> 400]
          /\ UNCHANGED <<shops, idCounter, issued, live>>
     ELSE /\ idCounter < MaxIds
          /\ idCounter' = idCounter + 1
          /\ LET id == TestId(idCounter')
                 shop == Spread([id |-> id], body)
             IN /\ shops' = Spread(shops, [k \in {id} |-> shop])
                /\ response' = [method |-> "POST", status |-> 201, shop |-> shop]
                /\ issued' = Append(issued, shop.id)
                /\ live' = live \cup {shop.id}
  /\ UNCHANGED <<guardVars, exceptShops>>

GetShop(id) ==
  /\ response' =
       IF id \in DOMAIN shops
       THEN [method |-> "GET", status |-> 200, shop |-> shops[id]]
       ELSE [method |-> "GET", status |-> 404]
  /\ UNCHANGED <<shops, idCounter, issued, live>>
  /\ UNCHANGED <<guardVars, exceptShops>>

PatchShop(id, body) ==
  /\ IF id \notin DOMAIN shops
     THEN /\ response' = [method |-> "PATCH", status |-> 404]
          /\ UNCHANGED shops
     ELSE LET updated == Spread(shops[id], body)
          IN /\ shops' = [shops EXCEPT ![id] = updated]
             /\ response' = [method |-> "PATCH", status |-> 200, shop |-> updated]
  /\ UNCHANGED <<idCounter, issued, live>>
  /\ UNCHANGED <<guardVars, exceptShops>>

DeleteShop(id) ==
  /\ IF id \notin DOMAIN shops
     THEN /\ response' = [method |-> "DELETE", status |-> 404]
          /\ UNCHANGED <<shops, live>>
     ELSE /\ shops' = Pick(shops, DOMAIN shops \ {id})
          /\ response' = [method |-> "DELETE", status |-> 204]
          /\ live' = live \ {id}
  /\ UNCHANGED <<idCounter, issued>>
  /\ UNCHANGED <<guardVars, exceptShops>>

\* a successful POST of a driver, a route or a target: genId is shared
PostElsewhere ==
  /\ idCounter < MaxIds
  /\ idCounter' = idCounter + 1
  /\ UNCHANGED <<shops, response, issued, live>>
  /\ UNCHANGED <<guardVars, exceptShops>>

ShopsNext ==
  \/ \E body \in Bodies : PostShop(body)
  \/ \E id \in RequestIds : GetShop(id)
  \/ \E id \in RequestIds, body \in Bodies : PatchShop(id, body)
  \/ \E id \in RequestIds : DeleteShop(id)
  \/ PostElsewhere

SpecShops == Init /\ [][ShopsNext]_vars

\* GET /api/shops/:id answers 200 iff the id was returned by a successful POST
\* and has not been deleted since
GetFindsIssued == \A id \in RequestIds : GetStatus(id) = 200 <=> id \in live

\* a POST answered 400 and a PATCH or DELETE answered 404 leave the store unchanged
RejectionKeepsStore ==
  (response'.method \in {"POST", "PATCH", "DELETE"} /\ response'.status \in {400, 404})
    => shops' = shops

NoIdIssuedTwice ==
  \A i, j \in 1 .. Len(issued) : issued[i] = issued[j] => i = j

\* C18 (as stated): after any sequence of POST, PATCH and DELETE requests,
\* GET /api/shops/:id returns 200 iff that id was returned by a successful POST
\* and has not been deleted since; rejected requests leave the store
\* unchanged; no id is issued twice.
C18_ShopsContract ==
  /\ []GetFindsIssued
  /\ [][RejectionKeepsStore]_vars
  /\ []NoIdIssuedTwice

\* -------------------------------------------------------------------- C19
\* C19 (as stated): the breaker state changes only by Closed -> Open,
\* Open -> HalfOpen, HalfOpen -> Closed and HalfOpen -> Open, or by
\* resetCircuitBreaker; the outcome of a guarded call never moves the breaker
\* from Open to Closed before the cooldown has elapsed.
BreakerTransitions ==
  { <<"CLOSED", "OPEN">>, <<"OPEN", "HALF_OPEN">>,
    <<"HALF_OPEN", "CLOSED">>, <<"HALF_OPEN", "OPEN">> }

C19_OnlyBreakerTransitions ==
  [][/\ \/ circuitBreaker'.state = circuitBreaker.state
        \/ <<circuitBreaker.state, circuitBreaker'.state>> \in BreakerTransitions
        \/ ResetMpesaCircuitBreaker
     /\ \A p \in Callers :
          (Completed(p) /\ circuitBreaker.state = "OPEN" /\ ~CooldownElapsed)
            => circuitBreaker'.state # "CLOSED"]_vars

\* the transitions that the outcome of a guarded call does make: those of the
\* claim and, for a call that succeeds after another call has opened the
\* breaker, Open -> Closed
C19_TransitionsOfTheGuard ==
  [][\/ circuitBreaker'.state = circuitBreaker.state
     \/ <<circuitBreaker.state, circuitBreaker'.state>> \in BreakerTransitions
     \/ ResetMpesaCircuitBreaker
     \/ /\ <<circuitBreaker.state, circuitBreaker'.state>> = <<"OPEN", "CLOSED">>
        /\ \E p \in Callers : CompletedOk(p)]_vars

\* -------------------------------------------------------------------- C20
\* C20: under any interleaving, a guarded call that passed validation and the
\* breaker check adds, on the step on which it completes, exactly one to
\* totalRequests and at most one to failures, however many provider attempts
\* it made; no other step changes totalRequests or raises failures (so
\* totalRequests, which starts at 0, is the number of completed admitted
\* calls); and the breaker goes from Closed to Open only on the completion of
\* a failed guarded call that is at least the fifth in a row.
C20_OneUpdatePerCall ==
  [][/\ \A p \in Callers :
          Completed(p) =>
            /\ metrics'.totalRequests = metrics.totalRequests + 1
            /\ circuitBreaker'.failures <= circuitBreaker.failures + 1
            /\ \A q \in Callers \ {p} : ~Completed(q)
     /\ (\A p \in Callers : ~Completed(p)) =>
          /\ metrics'.totalRequests = metrics.totalRequests
          /\ circuitBreaker'.failures <= circuitBreaker.failures
     /\ (circuitBreaker.state = "CLOSED" /\ circuitBreaker'.state = "OPEN") =>
          /\ \E p \in Callers : CompletedFailed(p)
          /\ consecFails' >= 5]_vars

\* five provider attempts have failed (three of a call that has completed,
\* two of a call still in its third attempt), and one failure is counted
C20_Witness ==
  \E p, q \in Callers :
    /\ pc[p] = "done" /\ result[p].kind # "ok" /\ calls[p] = 3
    /\ pc[q] = "attempt" /\ calls[q] = 3 /\ delays[q] = 2
    /\ metrics.totalRequests = 1
    /\ circuitBreaker.failures = 1 /\ circuitBreaker.state = "CLOSED"

\* -------------------------------------------------------------------- C21
\* C21: in every reachable state, under any interleaving of guarded calls and
\* resets, the breaker being Open or HalfOpen implies failures >= 5, and the
\* breaker being Closed implies failures < 5.
C21_StateMatchesFailures ==
  /\ circuitBreaker.state \in {"OPEN", "HALF_OPEN"}
       => circuitBreaker.failures >= CIRCUIT_BREAKER_THRESHOLD
  /\ circuitBreaker.state = "CLOSED"
       => circuitBreaker.failures < CIRCUIT_BREAKER_THRESHOLD

\* two calls admitted while the breaker was Closed have both failed: the
\* second failure was recorded with the breaker already Open
C21_Witness ==
  /\ circuitBreaker.state = "OPEN"
  /\ circuitBreaker.failures = CIRCUIT_BREAKER_THRESHOLD + 1
  /\ metrics.failedRequests = CIRCUIT_BREAKER_THRESHOLD + 1

\* -------------------------------------------------------------------- C22
\* C22: in every reachable state totalRequests = successfulRequests +
\* failedRequests; no step lowers any of the three counters, and
\* resetMpesaCircuitBreaker and getMpesaHealth leave them as they are.
C22_CountersAddUp ==
  /\ [](metrics.totalRequests = metrics.successfulRequests + metrics.failedRequests)
  /\ [][/\ metrics'.totalRequests >= metrics.totalRequests
        /\ metrics'.successfulRequests >= metrics.successfulRequests
        /\ metrics'.failedRequests >= metrics.failedRequests
        /\ (ResetMpesaCircuitBreaker \/ GetMpesaHealth) => metrics' = metrics]_vars

\* calls have succeeded and failed, the breaker has been reset since, and the
\* caller of getMpesaHealth has written to the object it was given
C22_Witness ==
  /\ metrics.successfulRequests >= 1 /\ metrics.failedRequests >= 1
  /\ circuitBreaker.failures = 0 /\ circuitBreaker.lastFailureTime = 0
  /\ health # NoHealth /\ health.written
  /\ health.metrics.fields.totalRequests # metrics.totalRequests

\* ------------------------------------------------- the cooldown of the breaker
\* One caller making guarded calls with retries, the clock, and a monitor that
\* asks for the health of the guard and drops what it was given.
CooldownNext ==
  \/ Tick
  \/ CallerStep(1)
  \/ GetMpesaHealth
  \/ ReleaseHealth

SpecCooldown == Init /\ [][CooldownNext]_vars

\* -------------------------------------------------------------------- C23
\* the time since the last recorded failure
SinceLastFailure == now - circuitBreaker.lastFailureTime

\* a retry delay's timer fires
TimerFires == \E p \in Callers : pc[p] = "delay" /\ pc'[p] = "attempt"

\* C23 (as stated): the breaker moves from Open to HalfOpen only inside the
\* breaker check of a guarded call, and only when the time since the last
\* recorded failure exceeds the cooldown (60 s); a check made before that
\* answers 'open' and leaves the state Open; the passage of time, a timer and
\* getMpesaHealth do not change the state.
C23_HalfOpenWhenCooldownExceeded ==
  [][/\ (circuitBreaker.state = "OPEN" /\ circuitBreaker'.state = "HALF_OPEN") =>
          /\ \E p \in Callers : ReachesBreaker(p)
          /\ SinceLastFailure > CIRCUIT_BREAKER_TIMEOUT
     /\ \A p \in Callers :
          (/\ ReachesBreaker(p)
           /\ circuitBreaker.state = "OPEN"
           /\ ~(SinceLastFailure > CIRCUIT_BREAKER_TIMEOUT)) =>
            /\ result'[p] = BreakerOpenError
            /\ circuitBreaker' = circuitBreaker
     /\ (now' # now \/ TimerFires \/ health' # health) =>
          circuitBreaker' = circuitBreaker]_vars

\* C23 (amended): ... only when the time since the last recorded failure has
\* reached the cooldown (>= 60 s); a check made before that answers 'open'
\* and leaves the state Open.
C23_HalfOpenWhenCooldownReached ==
  [][/\ (circuitBreaker.state = "OPEN" /\ circuitBreaker'.state = "HALF_OPEN") =>
          /\ \E p \in Callers : ReachesBreaker(p)
          /\ SinceLastFailure >= CIRCUIT_BREAKER_TIMEOUT
     /\ \A p \in Callers :
          (/\ ReachesBreaker(p)
           /\ circuitBreaker.state = "OPEN"
           /\ SinceLastFailure < CIRCUIT_BREAKER_TIMEOUT) =>
            /\ result'[p] = BreakerOpenError
            /\ circuitBreaker' = circuitBreaker
     /\ (now' # now \/ TimerFires \/ health' # health) =>
          circuitBreaker' = circuitBreaker]_vars

\* the cooldown elapsed with the breaker Open, getMpesaHealth was called and
\* showed it Open, and the check of the next guarded call made it HalfOpen
C23_Witness ==
  /\ circuitBreaker.state = "HALF_OPEN"
  /\ SinceLastFailure >= CIRCUIT_BREAKER_TIMEOUT
  /\ pc[1] = "attempt" /\ calls[1] = 1
  /\ health # NoHealth
  /\ health.circuitBreaker.fields.state = "OPEN"
  /\ health.circuitBreaker.fields.lastFailureTime = circuitBreaker.lastFailureTime

\* -------------------------------------------------------------------- C24
\* C24: after every rate-limit check, accepted or rejected, the stored window
\* holds at most 100 timestamps and each of them is younger than the window
\* (60 s) at the time of the check; a rejected check records no timestamp and
\* an accepted check records exactly one: the time of the check, after the
\* timestamps that were still young.
C24_WindowAfterCheck ==
  [][\A p \in Callers :
       Started(p) =>
         /\ Len(requestTimestamps') <= RATE_LIMIT_MAX_REQUESTS
         /\ \A i \in 1 .. Len(requestTimestamps') :
              now - requestTimestamps'[i] < RATE_LIMIT_WINDOW
         /\ IF result'[p] = RateLimitError
            THEN requestTimestamps' = requestTimestamps
            ELSE /\ Len(requestTimestamps') = RecentCount(requestTimestamps, now) + 1
                 /\ requestTimestamps'[Len(requestTimestamps')] = now
                 /\ \A i \in 1 .. Len(requestTimestamps') - 1 :
                      \E j \in 1 .. Len(requestTimestamps) :
                        requestTimestamps[j] = requestTimestamps'[i]]_vars

\* a check was rejected with the window full, at a later time than the first
\* timestamp of the window
C24_Witness ==
  /\ pc[1] = "done" /\ result[1] = RateLimitError
  /\ Len(requestTimestamps) = RATE_LIMIT_MAX_REQUESTS
  /\ requestTimestamps[1] < now
  /\ requestTimestamps[RATE_LIMIT_MAX_REQUESTS] = now

\* ------------------------------------------------------ rejections of the guard
\* One caller of the rate-limited entry point and a provider that answers
\* with a client error: the breaker opens after five calls, and the calls it
\* then rejects fill the window of the rate limiter.
RejectNext ==
  \/ RateTick
  \/ InitiateSTKPushWithRateLimit(1, HealthRequest)
  \/ AttemptFailsFinal(1, [cls |-> "Error", status |-> 400])
  \/ Return(1)

SpecReject == Init /\ [][RejectNext]_vars

\* -------------------------------------------------------------------- C25
\* C25: a guarded call rejected because the breaker is Open, and a call
\* rejected by the rate limiter, leave failures, lastFailureTime, the state of
\* the breaker and the counters of the metrics unchanged; so the cooldown of
\* an Open breaker still ends 60 s after the last recorded failure: a call
\* that reaches the breaker check then is admitted.
C25_RejectionsLeaveBreaker ==
  [][\A p \in Callers :
       /\ (/\ Started(p)
           /\ pc'[p] = "done"
           /\ result'[p] \in {BreakerOpenError, RateLimitError}) =>
            /\ circuitBreaker' = circuitBreaker
            /\ metrics' = metrics
       /\ (/\ ReachesBreaker(p)
           /\ result'[p] # RateLimitError
           /\ circuitBreaker.state = "OPEN"
           /\ now >= circuitBreaker.lastFailureTime + CIRCUIT_BREAKER_TIMEOUT) =>
            pc'[p] = "attempt"]_vars

\* the breaker opened at the fifth failure; since then it has rejected calls,
\* which filled the window of the rate limiter, and the rate limiter has
\* rejected one: the breaker and the metrics are as the fifth failure left them
C25_Witness ==
  /\ pc[1] = "done" /\ result[1] = RateLimitError
  /\ Len(requestTimestamps) = RATE_LIMIT_MAX_REQUESTS
  /\ circuitBreaker.state = "OPEN"
  /\ circuitBreaker.failures = CIRCUIT_BREAKER_THRESHOLD
  /\ circuitBreaker.lastFailureTime < now
  /\ metrics = [totalRequests |-> 5, successfulRequests |-> 0, failedRequests |-> 5]

\* ------------------------------------------------------ probes of the breaker
\* Two callers of the rate-limited entry point, whose window records when
\* each call was made, and a provider that answers with a value or with a
\* client error.
ProbeStep(p) ==
  \/ /\ Len(requestTimestamps) < MaxProbeWindow
     /\ InitiateSTKPushWithRateLimit(p, HealthRequest)
  \/ AttemptSucceeds(p, "v1")
  \/ AttemptFailsFinal(p, [cls |-> "Error", status |-> 400])
  \/ Return(p)

ProbeNext ==
  \/ RateTick
  \/ \E p \in Callers : ProbeStep(p)

SpecProbe == Init /\ [][ProbeNext]_vars

\* -------------------------------------------------------------------- C26
\* C26: while the breaker is HalfOpen every guarded call that reaches the
\* breaker check passes it and makes its first provider call, and the check
\* leaves the breaker as it is: the calls admitted and in flight while it is
\* HalfOpen are not limited to one.
C26_HalfOpenAdmitsAll ==
  [][\A p \in Callers :
       (ReachesBreaker(p) /\ circuitBreaker.state = "HALF_OPEN") =>
         /\ pc'[p] = "attempt" /\ calls'[p] = 1
         /\ result'[p] = NoResult
         /\ circuitBreaker' = circuitBreaker]_vars

\* five calls failed and opened the breaker; both calls now in flight were
\* made once the cooldown had elapsed (the window holds their two timestamps
\* only), the second of them with the breaker HalfOpen
C26_Witness ==
  /\ circuitBreaker.state = "HALF_OPEN"
  /\ metrics = [totalRequests |-> 5, successfulRequests |-> 0, failedRequests |-> 5]
  /\ \A p \in Callers : pc[p] = "attempt" /\ calls[p] = 1
  /\ Len(requestTimestamps) = 2
  /\ \A i \in 1 .. 2 :
       requestTimestamps[i] >= circuitBreaker.lastFailureTime + CIRCUIT_BREAKER_TIMEOUT

\* ---------------------------------------------------------------- C27
\* C27: the breaker is consulted once per guarded call, before the first
\* provider attempt.  A call that was admitted goes on through its retry
\* sequence whatever the breaker's state has become: a step of a call in flight
\* that does not end it (a failed attempt that will be retried, a retry delay
\* that elapses) leaves the call in flight and the breaker untouched, the
\* elapsed delay makes one more provider attempt, and a waiting call can always
\* make its next attempt, also while the breaker is OPEN.  When the call ends
\* its outcome is applied to the breaker, whatever the state: a success closes
\* it and clears the failure count, a failure adds one failure stamped with
\* the current time; the call never ends with the breaker's own rejection.
C27_AdmittedCallRunsToItsEnd ==
  /\ [][\A p \in Callers :
          /\ (InFlight(p) /\ pc'[p] # pc[p] /\ ~Completed(p)) =>
                /\ InFlight(p)'
                /\ circuitBreaker' = circuitBreaker
                /\ (pc[p] = "delay" => pc'[p] = "attempt" /\ calls'[p] = calls[p] + 1)
          /\ Completed(p) => result'[p] # BreakerOpenError
          /\ CompletedOk(p) =>
                /\ circuitBreaker'.state = "CLOSED"
                /\ circuitBreaker'.failures = 0
          /\ CompletedFailed(p) =>
                /\ circuitBreaker'.failures = circuitBreaker.failures + 1
                /\ circuitBreaker'.lastFailureTime = now
                /\ (circuitBreaker.state = "OPEN" => circuitBreaker'.state = "OPEN")]_vars
  /\ [](\A p \in Callers : (pc[p] = "delay" /\ NoneDone) => ENABLED DelayElapses(p))

\* five calls failed and the breaker is OPEN, its cooldown running, while the
\* sixth call, admitted before it opened, is in its third provider attempt
C27_Witness ==
  /\ circuitBreaker.state = "OPEN"
  /\ circuitBreaker.failures = CIRCUIT_BREAKER_THRESHOLD
  /\ ~CooldownElapsed
  /\ metrics.failedRequests = CIRCUIT_BREAKER_THRESHOLD
  /\ \E p \in Callers : pc[p] = "attempt" /\ calls[p] = 3 /\ delays[p] = 2

\* ---------------------------------------------------------------- C28
\* a step of the wrapper installed by trackAIUsage up to its await: not the
\* clock, not the configuration, not the settling of a wrapped method
WrapperCalled ==
  /\ usageNow' = usageNow
  /\ limits' = limits
  /\ \A t \in UsageTasks : ~(usagePc[t] = "method" /\ usagePc'[t] = "idle")

\* the wrapper rejects the call for a limit: checkUsageLimits throws, or the
\* call ends with the limit error
LimitRejection ==
  /\ WrapperCalled
  /\ \/ checkLimitsThrows
     \/ \E t \in UsageTasks : usageResult'[t] = "limit" /\ usageResult[t] # "limit"

\* C28: when trackAIUsage rejects a call because a usage limit is reached, the
\* wrapped method is not invoked, the caller gets the limit error, and a
\* failed record stamped with the current time is appended, which raises by
\* one the daily and the monthly call counts that later limit checks read.
C28_RejectionIsRecorded ==
  [][LimitRejection =>
       /\ invocations' = invocations
       /\ usagePc' = usagePc
       /\ \E t \in UsageTasks :
            /\ usageResult'[t] = "limit"
            /\ \A u \in UsageTasks \ {t} : usageResult'[u] = usageResult[u]
       /\ usageRecords' = Append(usageRecords, [timestamp |-> usageNow, success |-> FALSE])
       /\ dailyCalls' = dailyCalls + 1
       /\ monthlyCalls' = monthlyCalls + 1]_vars

\* with daily limit 1, one call ran the method and two later calls were
\* rejected: three records in the last 24 hours, the last two failed
C28_Witness ==
  /\ limits.dailyCalls = 1
  /\ Len(invocations) = 1
  /\ Len(usageRecords) = 3
  /\ ~usageRecords[2].success /\ ~usageRecords[3].success
  /\ dailyCalls = 3
  /\ \E t \in UsageTasks : usageResult[t] = "limit"

\* ---------------------------------------------------------------- C29
\* C29 (as stated): with monitoring enabled, d calls recorded in the last 24
\* hours, d below the daily limit L, and the monthly limit not binding,
\* canMakeRequest allows the request iff d + 1 <= L, which is exactly when
\* checkUsageLimits does not throw.
C29_AllowedIffWithinLimit ==
  (/\ isEnabled
   /\ dailyCalls < limits.dailyCalls
   /\ monthlyCalls + 1 < limits.monthlyCalls) =>
     /\ canMakeRequest <=> dailyCalls + 1 <= limits.dailyCalls
     /\ canMakeRequest <=> ~checkLimitsThrows

\* what canMakeRequest computes: under the same conditions it allows the
\* request iff d + 1 < L, so it denies the last call that checkUsageLimits
\* lets through
C29_AllowedBelowLimit ==
  (/\ isEnabled
   /\ monthlyCalls + 1 < limits.monthlyCalls) =>
     /\ canMakeRequest <=> dailyCalls + 1 < limits.dailyCalls
     /\ (dailyCalls + 1 = limits.dailyCalls) => ~canMakeRequest /\ ~checkLimitsThrows

\* ---------------------------------------------------------------- C30
\* updateSetting returned an error
UpdateFailed == settingsResult'.kind = "update" /\ ~settingsResult'.success

\* C30 (as stated): the stored values are written by updateSetting only; every
\* value that an updateSetting stores for a setting with a validator
\* satisfies that validator, so that after any sequence of calls the value
\* last written does; and an updateSetting that returns an error leaves the
\* stored values unchanged.
C30_StoredValueIsValidated ==
  [][/\ \A name \in SettingNames :
          env'[name] # env[name] =>
            /\ settingsResult'.kind = "update" /\ settingsResult'.success
            /\ Validates(ConfigOf(name), env'[name])
     /\ UpdateFailed => env' = env]_vars

\* what updateSetting guarantees: the value it stores is the trimmed form of
\* a value that satisfies the validator, and an error leaves the stored
\* values unchanged
C30_StoredValueIsTrimmedInput ==
  [][/\ \A name \in SettingNames :
          env'[name] # env[name] =>
            /\ settingsResult'.kind = "update" /\ settingsResult'.success
            /\ \E newValue \in ValuesFor(name) :
                 /\ Validates(ConfigOf(name), newValue)
                 /\ env'[name] = Sanitize(newValue)
     /\ UpdateFailed => env' = env]_vars

=============================================================================
